---- MODULE Spec2Model ----
(***************************************************************************)
(* The orchestration loop of the gateway (class Agent, Agent.chat and      *)
(* Agent.clearConversation) as a state machine.                            *)
(*                                                                         *)
(* The conversation store is a Map from conversation id to a JavaScript    *)
(* array.  Arrays are objects: chat() mutates the array it got from the    *)
(* map in place, and two holders of the same array see each other's        *)
(* pushes.  The model therefore keeps a heap of arrays and lets the map    *)
(* and every running invocation hold references into it.                   *)
(*                                                                         *)
(* An invocation of chat() is cut into steps at its await points: the LLM  *)
(* request and each tool execution.  Everything between two awaits is one  *)
(* atomic step, as it is on the JavaScript event loop.                     *)
(*                                                                         *)
(* The second part is the channel session (class WhatsAppChannel): its     *)
(* connection life cycle with the reconnect backoff, and the handling of   *)
(* inbound message batches with the two dedup sets.                        *)
(***************************************************************************)
EXTENDS Integers, Sequences, FiniteSets, TLC

VARIABLES
    conversations,  \* Agent.conversations: conversation id -> array reference
    heap,           \* array reference -> the array's messages
    pc,             \* per caller: "idle", "llm" (awaiting llm.chat), "tool"
    convId,         \* per caller: parameter conversationId
    messages,       \* per caller: local `messages` (an array reference)
    maxIterations,  \* per caller: local `maxIterations`
    response,       \* per caller: local `response` of the current round
    callIdx,        \* per caller: position of the for-of loop in tool_calls
    ret,            \* per caller: how the last invocation ended
    requests,       \* history: LLM requests issued by the current invocation
    toolRuns,       \* history: tool executions started by the invocation
    before,         \* history: the stored history when the invocation began
    rounds,         \* history: tool_calls of each tool round of the invocation
    appended,       \* history: messages the invocation pushed, in order
    lastOp,         \* history: the step taken last
    ops,            \* history: operations begun in this run
    variants,       \* history: non-default environment answers in this run
    sent,           \* history: LLM requests issued in this run
    peers,          \* history: per caller, the callers whose invocations for
                    \* the same id were in flight during its invocation
    handler,        \* WhatsAppChannel.handler is set
    stopping,       \* WhatsAppChannel.stopping
    connected,      \* WhatsAppChannel.connected
    reconnectAttempts,  \* WhatsAppChannel.reconnectAttempts
    socket,         \* the socket WhatsAppChannel.socket refers to: "null", or
                    \* that socket's state "connecting", "open", "closed"
    detached,       \* the sockets this.socket does not refer to that still
                    \* emit events: how many are connecting, open, ended
    connects,       \* calls of connect() suspended before makeWASocket
    timers,         \* the delays of the pending reconnect timers
    processedMessages,  \* WhatsAppChannel.processedMessages, oldest first
    botSentMessages,    \* WhatsAppChannel.botSentMessages, oldest first
    messageStore,   \* the keys of WhatsAppChannel.messageStore
    config,         \* WhatsAppChannel.config
    reply,          \* per upsert handler: `response` is a non-empty string
    signals,        \* history, per upsert handler: the calls of the socket
                    \* made for the message in hand or handled last
    hpc,            \* per upsert handler: "idle", "next", or the await it is at
    batch,          \* per upsert handler: the messages of the batch not yet
                    \* done, the one in hand first
    lastEvent,      \* history: the step the session took last
    failures,       \* history: closes since the last open that came neither
                    \* while stopping nor with the reason logged-out
    starts,         \* history: calls of start() in this run
    deliveries,     \* history: messages delivered in this run
    inbound,        \* history: the highest inbound message id delivered
    replies,        \* history: replies the session has sent
    invoked,        \* history: the ids the handler was invoked for, in order
    toolsConfig,    \* the tools' configuration and what was built from it
    tpc,            \* the call of executeTool: "idle", the await it is at
                    \* ("exec", "browse", "ssh"), "done", or "recorded"
    tcall,          \* the call of executeTool in hand or made last
    tresult,        \* how that call ended
    effects,        \* history: the side effects of that call
    tevent,         \* history: the event of the ssh process that settled it
    toolMessage,    \* the tool message Agent.chat pushed last
    mgrHandler,     \* ChannelManager.handler is set
    autoStart,      \* ChannelManager.configs: autoStart of each session
    sessions,       \* ChannelManager.channels: the state of each session
    mpc,            \* the call of the manager in hand or made last
    mret,           \* how that call ended
    mlog,           \* history: what that call logged, in order
    attempted,      \* history: the sessions that call started or stopped
    mcalls,         \* history: the calls of the manager begun
    memEnabled,     \* MemoryManager.config.enabled
    store,          \* MemoryManager.store: the entries in insertion order
    now,            \* Date.now()
    memOps,         \* history: the calls of set and delete made
    browser,        \* BrowserTool.browser: NoBrowser (null) or an instance
    launched,       \* history: the number of browser instances launched
    closed,         \* history: the instances whose close() has settled
    bpc,            \* per browse call: "idle", "import", "launch", "page"
    closing,        \* the instance close() awaits, or NoBrowser
    browses,        \* history: the calls of browse and close begun
    cleaned         \* history: close() has returned and no browse began since

agentVars == <<conversations, heap, pc, convId, messages,
               maxIterations, response, callIdx, ret>>
histVars == <<requests, toolRuns, before, rounds, appended, lastOp, ops,
              variants, sent, peers>>
connVars == <<handler, stopping, connected, reconnectAttempts, socket,
              detached, connects, timers>>
msgVars == <<processedMessages, botSentMessages, messageStore, hpc, batch,
             config, reply, signals>>
chanHistVars == <<lastEvent, failures, starts, deliveries, inbound, replies,
                  invoked>>
chanVars == <<connVars, msgVars, chanHistVars>>
toolVars ==
    <<toolsConfig, tpc, tcall, tresult, effects, tevent, toolMessage>>
mgrVars ==
    <<mgrHandler, autoStart, sessions, mpc, mret, mlog, attempted, mcalls>>
memVars == <<memEnabled, store, now, memOps>>
browserVars ==
    <<browser, launched, closed, bpc, closing, browses, cleaned>>
auxVars == <<memVars, browserVars>>
vars == <<agentVars, histVars, chanVars, toolVars, mgrVars, auxVars>>

(***************************************************************************)
(* Bounds of the model.                                                    *)
(***************************************************************************)
MaxOps == 2         \* operations (chat, clearConversation) in one run
MaxVariants == 1    \* environment answers other than the default ones
MaxRequests == 12   \* LLM requests in one run
MaxClearOps == 3    \* operations in one run of ClearSpec
MaxClearRequests == 4   \* LLM requests in one run of ClearSpec
MaxRoundOps == 1    \* invocations of chat in one run of RoundSpec
MaxRoundRequests == 3   \* LLM requests in one run of RoundSpec
MaxConcRequests == 4 \* LLM requests in one run of overlapping invocations
MaxOverlapOps == 3  \* chat invocations in one run on a single id
MaxOverlapRequests == 5 \* LLM requests in one run on a single id
MaxStarts == 2      \* calls of start() on the session in one run
MaxDeliveries == 1  \* inbound messages in one run of the session's life cycle
MaxMsgDeliveries == 3 \* inbound messages in one run of the message handling
MaxInbound == 1001  \* distinct inbound messages in one run of a long session
MaxRedeliveries == 2 \* redeliveries in one run of a long session
MaxMgrCalls == 3    \* calls of the manager in one run of MgrSpec
MaxEchoDeliveries == 3  \* messages delivered in one run of EchoSpec
MaxReplyDeliveries == 2 \* inbound messages in one run of the reply handling

(***************************************************************************)
(* Program constants.                                                      *)
(***************************************************************************)
MAX_ITERATIONS == 10
MAX_TOOL_RESULT == 4000
maxReconnectAttempts == 10      \* WhatsAppChannel.maxReconnectAttempts
BASE_DELAY == 1000              \* `1000 * Math.pow(2, ...)`
MAX_DELAY == 60000              \* `Math.min(..., 60000)`
PROCESSED_LIMIT == 1000         \* `this.processedMessages.size > 1000`
EVICT_COUNT == 500              \* `for (let i = 0; i < 500; i++)`

Procs == {1, 2}
ConvIds == {"A", "B"}
NoRef == 0
ArrayRefs == 1..(Cardinality(ConvIds) + Cardinality(Procs))

(***************************************************************************)
(* Text.  A string is a sequence of pieces; a piece is the first n         *)
(* characters of a literal ("lit", s the literal), of an opaque string of  *)
(* v characters named s ("raw"), or of the decimal rendering of the number *)
(* v ("num").  The empty string is the empty sequence.                     *)
(***************************************************************************)
Digits(v) == IF v < 10 THEN 1 ELSE IF v < 100 THEN 2 ELSE IF v < 1000 THEN 3
             ELSE IF v < 10000 THEN 4 ELSE 5

Str(s) == IF s = "" THEN <<>>
          ELSE <<[k |-> "lit", s |-> s, v |-> 0, n |-> Len(s)]>>

Raw(name, len) == IF len = 0 THEN <<>>
                  ELSE <<[k |-> "raw", s |-> name, v |-> len, n |-> len]>>

Num(v) == <<[k |-> "num", s |-> "", v |-> v, n |-> Digits(v)]>>

RECURSIVE TextLen(_)
TextLen(t) == IF t = <<>> THEN 0 ELSE Head(t).n + TextLen(Tail(t))

\* t.substring(0, m)
RECURSIVE Substring0(_, _)
Substring0(t, m) ==
    IF t = <<>> \/ m <= 0 THEN <<>>
    ELSE IF Head(t).n <= m
         THEN <<Head(t)>> \o Substring0(Tail(t), m - Head(t).n)
         ELSE <<[Head(t) EXCEPT !.n = m]>>

\* text as a sequence of characters
Whitespace == {" ", "\t"}

\* String.prototype.trim
RECURSIVE TrimStart(_)
TrimStart(s) ==
    IF s # <<>> /\ Head(s) \in Whitespace THEN TrimStart(Tail(s)) ELSE s

RECURSIVE TrimEnd(_)
TrimEnd(s) ==
    IF s # <<>> /\ s[Len(s)] \in Whitespace
    THEN TrimEnd(SubSeq(s, 1, Len(s) - 1)) ELSE s

Trim(s) == TrimEnd(TrimStart(s))

(***************************************************************************)
(* Messages (interface ChatMessage) and tool calls (interface ToolCall).   *)
(* An absent tool_calls is <<>>, an absent tool_call_id is "".             *)
(***************************************************************************)
NoCalls == <<>>
NoCallId == ""

Message(role, content, calls, callId) ==
    [role |-> role, content |-> content, tool_calls |-> calls,
     tool_call_id |-> callId]

ToolCall(id, name, arguments) ==
    [id |-> id, name |-> name, arguments |-> arguments]

\* buildSystemPrompt(), one fixed text
SystemPrompt == Str("You are OpenClaw")

\* the system message of a conversation begun with nothing remembered
SystemMessage == Message("system", SystemPrompt, NoCalls, NoCallId)

(***************************************************************************)
(* MemoryManager.  The store is the Map's entries in insertion order; keys *)
(* and values are numbers standing for strings.                            *)
(***************************************************************************)
ContextEntries == 20

Entry(key, value, timestamp) ==
    [key |-> key, value |-> value, timestamp |-> timestamp]

\* Map.set: an entry of a key already present takes the place of the old one
Put(s, e) ==
    IF \E i \in 1..Len(s) : s[i].key = e.key
    THEN [i \in 1..Len(s) |-> IF s[i].key = e.key THEN e ELSE s[i]]
    ELSE Append(s, e)

\* Map.delete
Drop(s, key) == SelectSeq(s, LAMBDA e : e.key # key)

\* e is placed behind the entries of `sorted` that are not older than it
InsertNewestFirst(sorted, e) ==
    LET k == Cardinality({i \in 1..Len(sorted) :
                             sorted[i].timestamp >= e.timestamp})
    IN  SubSeq(sorted, 1, k) \o <<e>> \o SubSeq(sorted, k + 1, Len(sorted))

\* Array.prototype.sort with (a, b) => b.timestamp - a.timestamp, a stable
\* sort of the entries in insertion order
RECURSIVE SortNewestFirst(_)
SortNewestFirst(s) ==
    IF s = <<>> THEN <<>>
    ELSE InsertNewestFirst(SortNewestFirst(SubSeq(s, 1, Len(s) - 1)),
                           s[Len(s)])

ReverseOf(s) == [i \in 1..Len(s) |-> s[Len(s) + 1 - i]]

\* (variant: the comparator is a.timestamp - b.timestamp)
MemListOldestFirst == ReverseOf(SortNewestFirst(ReverseOf(store)))

\* MemoryManager.list
MemList == SortNewestFirst(store)

\* `[${e.key}]: ${e.value}`
Line(e) == Str("[") \o Num(e.key) \o Str("]: ") \o Num(e.value)

\* lines.join('\n')
RECURSIVE JoinLines(_)
JoinLines(es) ==
    IF es = <<>> THEN <<>>
    ELSE IF Len(es) = 1 THEN Line(es[1])
    ELSE Line(es[1]) \o Str("\n") \o JoinLines(Tail(es))

\* Array.prototype.slice(0, n)
Slice(s, n) == SubSeq(s, 1, IF Len(s) < n THEN Len(s) ELSE n)

\* MemoryManager.getContext; <<>> is the empty string
GetContext ==
    IF ~memEnabled \/ Len(store) = 0 THEN <<>>
    ELSE Str("Remembered context:\n")
         \o JoinLines(Slice(MemList, ContextEntries))

\* MemoryManager.set
MemSet(key, value) ==
    /\ memOps' = memOps + 1
    /\ store' = IF memEnabled THEN Put(store, Entry(key, value, now))
                ELSE store
    /\ UNCHANGED <<memEnabled, now>>

\* MemoryManager.delete
MemDelete(key) ==
    /\ memOps' = memOps + 1
    /\ store' = IF memEnabled THEN Drop(store, key) ELSE store
    /\ UNCHANGED <<memEnabled, now>>

\* a millisecond passes
Tick ==
    /\ now' = now + 1
    /\ UNCHANGED <<memEnabled, store, memOps>>

\* the system message of a conversation begun now: buildSystemPrompt(),
\* and the memory context behind it unless that is empty
SeedMessage ==
    Message("system",
            IF GetContext # <<>>
            THEN SystemPrompt \o Str("\n\n") \o GetContext
            ELSE SystemPrompt,
            NoCalls, NoCallId)

UserMessage(text) == Message("user", text, NoCalls, NoCallId)

\* (variant: the test is dropped and every turn is seeded)
ShouldSeedAlways(h) == TRUE

\* `messages.length === 0`
ShouldSeed(h) == Len(h) = 0

\* the system message is pushed first when the array is empty
Seed(h) == IF ShouldSeed(h) THEN Append(h, SeedMessage) ELSE h

\* (variant: unshift instead of push)
PushUserFront(h, text) == <<UserMessage(text)>> \o h

\* messages.push({ role: 'user', content: userMessage })
PushUser(h, text) == Append(h, UserMessage(text))

\* (variant: the tool calls are not recorded)
AssistantCallMessageNoCalls(resp) ==
    Message("assistant", resp.content, NoCalls, NoCallId)

\* `response.content || ''` with the response's tool_calls
AssistantCallMessage(resp) ==
    Message("assistant", resp.content, resp.tool_calls, NoCallId)

\* `response.tool_calls && response.tool_calls.length > 0`
HasToolCalls(resp) == Len(resp.tool_calls) > 0

NoResponseText == Str("I processed the request but have no additional response.")

\* (variant: `response.content` alone, as in the earlier Agent of lines
\* 340-447)
FinalTextNoFallback(content) == content

\* `response.content || 'I processed the request ...'`
FinalText(content) == IF content = <<>> THEN NoResponseText ELSE content

LLMFailedText(errMessage) ==
    Str("Sorry, the LLM request failed: ") \o errMessage

MaxIterationsText ==
    Str("I reached the maximum number of tool iterations. Please try rephrasing your request.")

\* the catch around executeTool: `Tool error: ${err.message}`
ToolResult(outcome) ==
    IF outcome.threw THEN Str("Tool error: ") \o outcome.text ELSE outcome.text

\* (variant: `>=` for `>`)
TruncateOffByOne(result) ==
    IF TextLen(result) >= MAX_TOOL_RESULT
    THEN Substring0(result, MAX_TOOL_RESULT)
         \o Str("\n\n[...truncated, ")
         \o Num(TextLen(result) - MAX_TOOL_RESULT)
         \o Str(" chars omitted]")
    ELSE result

\* the truncation of a large tool result
Truncate(result) ==
    IF TextLen(result) > MAX_TOOL_RESULT
    THEN Substring0(result, MAX_TOOL_RESULT)
         \o Str("\n\n[...truncated, ")
         \o Num(TextLen(result) - MAX_TOOL_RESULT)
         \o Str(" chars omitted]")
    ELSE result

\* (variant: the calls are taken last to first)
CurrentCallReversed(resp, i) == resp.tool_calls[Len(resp.tool_calls) + 1 - i]

\* the for-of loop's `toolCall` at position i
CurrentCall(resp, i) == resp.tool_calls[i]

ToolMessage(resp, i, outcome) ==
    Message("tool", Truncate(ToolResult(outcome)), NoCalls,
            CurrentCall(resp, i).id)

\* (variant: `>=` for `>`)
LoopConditionInclusive(mi) == mi >= 0

\* `while (maxIterations > 0)`
LoopCondition(mi) == mi > 0

\* how an invocation ended
NotReturned == [kind |-> "none", text |-> <<>>]
Returned(text) == [kind |-> "returned", text |-> text]
Raised(text) == [kind |-> "raised", text |-> text]

NoResponse == [content |-> <<>>, tool_calls |-> NoCalls]

\* the history stored for an id: <<>> when the map has no entry
Stored(id) == IF conversations[id] = NoRef THEN <<>> ELSE heap[conversations[id]]

\* (variant: the set is missing, as on the cap path of the earlier Agent of
\* lines 340-447)
StoreKeepAll(convs, id, ref) == convs

\* this.conversations.set(conversationId, messages)
Store(convs, id, ref) == [convs EXCEPT ![id] = ref]

\* (variant: this.conversations.clear())
DeleteAll(convs, id) == [c \in ConvIds |-> NoRef]

\* this.conversations.delete(conversationId)
Delete(convs, id) == [convs EXCEPT ![id] = NoRef]

(***************************************************************************)
(* Memory.  An array is reachable while the map holds it or a running      *)
(* invocation has it in `messages`.  What an unreachable array holds can   *)
(* no longer be observed: its slot is emptied, and `[]` takes a free slot. *)
(***************************************************************************)
Reachable(convs, pcs, msgs) ==
    {convs[id] : id \in ConvIds} \cup {msgs[p] : p \in {q \in Procs : pcs[q] # "idle"}}

Collect(hp, convs, pcs, msgs) ==
    [r \in ArrayRefs |-> IF r \in Reachable(convs, pcs, msgs) THEN hp[r] ELSE <<>>]

NewArray ==
    CHOOSE r \in ArrayRefs :
        /\ r \notin Reachable(conversations, pc, messages)
        /\ \A q \in ArrayRefs :
               q \notin Reachable(conversations, pc, messages) => r <= q

\* a step: the operation, the caller, the conversation id and the input
Op(name, p, id, arg) == [op |-> name, proc |-> p, id |-> id, arg |-> arg]

(***************************************************************************)
(* The tools (ToolManager.executeTool, BashTool, FileTool, BrowserTool,    *)
(* ClaudeCodeTool) and the part of Agent.chat that calls them.             *)
(*                                                                         *)
(* A JavaScript value is its type and, for a string or a number, its       *)
(* characters.  What parseToolArgs returns is its type and, for an         *)
(* object, its fields; an absent field is undefined.                       *)
(***************************************************************************)
FieldNames == {"command", "path", "content", "url", "prompt", "workdir"}

Value(t, chars) == [t |-> t, v |-> chars]
Undefined == Value("undefined", <<>>)
String(chars) == Value("string", chars)

NoFields == [f \in FieldNames |-> Undefined]
Object(fields) == [t |-> "object", fields |-> fields]
NonObject(t) == [t |-> t, fields |-> NoFields]

\* `args.command`: a property of null or undefined cannot be read
CanRead(args) == args.t \notin {"null", "undefined"}
Get(args, f) == args.fields[f]

\* the tokens of an arguments text: punctuation, string and number
\* literals, the literals null and true, and words that are no JSON
Tok(k, chars) == [k |-> k, v |-> chars]
Punct(c) == Tok("punct", <<c>>)
Scalars == {"str", "num", "null", "true"}

\* the text the tokens stand for
RECURSIVE Render(_)
Render(toks) ==
    IF toks = <<>> THEN <<>>
    ELSE (IF Head(toks).k = "str"
          THEN <<"\"">> \o Head(toks).v \o <<"\"">>
          ELSE Head(toks).v) \o Render(Tail(toks))

\* the value of a scalar token
ScalarValue(tok) ==
    IF tok.k = "str" THEN String(tok.v)
    ELSE IF tok.k = "num" THEN Value("number", tok.v)
    ELSE IF tok.k = "null" THEN Value("null", <<>>)
    ELSE Value("boolean", tok.v)

\* the members of an object: `"name": scalar`, separated by commas
RECURSIVE IsMembers(_)
IsMembers(toks) ==
    /\ Len(toks) >= 3
    /\ toks[1].k = "str"
    /\ toks[2] = Punct(":")
    /\ toks[3].k \in Scalars
    /\ \/ Len(toks) = 3
       \/ /\ Len(toks) > 4
          /\ toks[4] = Punct(",")
          /\ IsMembers(SubSeq(toks, 5, Len(toks)))

\* the fields the members give; of two members of one name the last wins
RECURSIVE Members(_, _)
Members(toks, fields) ==
    IF Len(toks) < 3 THEN fields
    ELSE Members(SubSeq(toks, 5, Len(toks)),
                 [f \in FieldNames |->
                     IF toks[1].v = <<f>> THEN ScalarValue(toks[3])
                     ELSE fields[f]])

\* JSON.parse succeeds: a scalar, `[]`, `{}` or an object of scalars
IsJson(toks) ==
    \/ Len(toks) = 1 /\ toks[1].k \in Scalars
    \/ toks = <<Punct("["), Punct("]")>>
    \/ toks = <<Punct("{"), Punct("}")>>
    \/ /\ Len(toks) >= 5
       /\ toks[1] = Punct("{")
       /\ toks[Len(toks)] = Punct("}")
       /\ IsMembers(SubSeq(toks, 2, Len(toks) - 1))

\* JSON.parse of a text that is JSON
JsonParse(toks) ==
    IF Len(toks) = 1 THEN NonObject(ScalarValue(toks[1]).t)
    ELSE IF toks[1] = Punct("[") THEN NonObject("array")
    ELSE Object(Members(SubSeq(toks, 2, Len(toks) - 1), NoFields))

\* (variant: what is not an object is replaced like what does not parse)
ParseToolArgsObjectsOnly(arguments) ==
    IF IsJson(arguments) /\ JsonParse(arguments).t = "object"
    THEN JsonParse(arguments)
    ELSE Object([NoFields EXCEPT !["command"] = String(Render(arguments))])

\* parseToolArgs: `try { return JSON.parse(...) } catch { return { command:
\* toolCall.function.arguments } }`
ParseToolArgs(arguments) ==
    IF IsJson(arguments) THEN JsonParse(arguments)
    ELSE Object([NoFields EXCEPT !["command"] = String(Render(arguments))])

(***************************************************************************)
(* BashTool.  A command is a sequence of characters; a run of characters   *)
(* without whitespace may stand as one element.                            *)
(***************************************************************************)
\* the part of s before the first element of `seps`
RECURSIVE Before(_, _)
Before(s, seps) ==
    IF s = <<>> \/ Head(s) \in seps THEN <<>>
    ELSE <<Head(s)>> \o Before(Tail(s), seps)

\* `command.trim().split(/\s+/)[0]`
BaseCommand(command) == Before(Trim(command), Whitespace)

\* `command.split(' ')[0]`
FirstField(command) == Before(command, {" "})

BashConfig(enabled, allowed, denied) ==
    [enabled |-> enabled, allowedCommands |-> allowed,
     deniedCommands |-> denied]

\* (variant: the allow-list is consulted before the deny-list)
IsCommandAllowedAllowFirst(cfg, command) ==
    IF cfg.allowedCommands # {}
    THEN BaseCommand(command) \in cfg.allowedCommands
    ELSE BaseCommand(command) \notin cfg.deniedCommands

\* isCommandAllowed(command), for a string
IsCommandAllowed(cfg, command) ==
    IF BaseCommand(command) \in cfg.deniedCommands THEN FALSE
    ELSE IF cfg.allowedCommands # {}
         THEN BaseCommand(command) \in cfg.allowedCommands
         ELSE TRUE

BashResult(stdout, stderr, exitCode, timedOut) ==
    [stdout |-> stdout, stderr |-> stderr, exitCode |-> exitCode,
     timedOut |-> timedOut]

BashDisabled == BashResult(<<>>, Str("Bash tool is disabled"), 1, FALSE)

\* `Command not allowed: ${command.split(' ')[0]}`
NotAllowed(command) ==
    BashResult(<<>>,
               Str("Command not allowed: ")
               \o Raw("command.split(' ')[0]", Len(FirstField(command))),
               1, FALSE)

\* executeTool, case 'bash': `stdout || stderr` under the exit code or the
\* timeout line
BashText(r) ==
    LET output == IF r.stdout # <<>> THEN r.stdout ELSE r.stderr
    IN IF r.timedOut THEN Str("Command timed out.\n") \o output
       ELSE Str("Exit code: ") \o Num(r.exitCode) \o Str("\n") \o output

\* the configuration of the tools and what the ToolManager constructed from
\* it: claudeCode is "absent", "disabled" or "enabled", and keyReady is the
\* ClaudeCodeTool's field
ToolsConfig(bash, file, browserEnabled, claudeCode, keyReady) ==
    [bash |-> bash, file |-> file, browser |-> browserEnabled,
     claudeCode |-> claudeCode, keyReady |-> keyReady]

\* a side effect of a tool: a process, a file operation, a browser, a
\* remote call
Effect(kind, what) == [kind |-> kind, what |-> what]

\* how far a call of executeTool gets before its first await
Resolved(text, eff) ==
    [pc |-> "done", result |-> Returned(text), effects |-> eff]
Thrown(text) == [pc |-> "done", result |-> Raised(text), effects |-> {}]
Pending(at, eff) == [pc |-> at, result |-> NotReturned, effects |-> eff]

TypeErrorText == Str("Cannot read properties of undefined")
DisabledFileText == Str("File tool is disabled")
FsErrorText == Str("ENOENT: no such file or directory")

\* (variant: the shell tool does not look at `enabled`)
BashEnabledAlways(cfg) == TRUE

\* `if (!this.config.enabled)` of BashTool.execute
BashEnabled(cfg) == cfg.enabled

\* case 'bash' with BashTool.execute up to `exec`
Bash(cfg, args) ==
    IF ~CanRead(args) THEN Thrown(TypeErrorText)
    ELSE LET command == Get(args, "command")
         IN IF ~BashEnabled(cfg.bash)
            THEN Resolved(BashText(BashDisabled), {})
            ELSE IF command.t # "string" THEN Thrown(TypeErrorText)
            ELSE IF ~IsCommandAllowed(cfg.bash, command.v)
            THEN Resolved(BashText(NotAllowed(command.v)), {})
            ELSE Pending("exec", {Effect("exec", command.v)})

\* FileTool.readFile, writeFile, listDirectory inside the try of their
\* case: `prefix` opens the error text, `path` is the path argument,
\* `usable` is whether the content can be written, `ok` is whether the file
\* system has what the call needs, and `text` is what is returned then
File(cfg, args, prefix, kind, path, usable, ok, text) ==
    IF ~CanRead(args) THEN Resolved(prefix \o TypeErrorText, {})
    ELSE IF ~cfg.file THEN Resolved(prefix \o DisabledFileText, {})
    ELSE IF path.t # "string" THEN Resolved(prefix \o TypeErrorText, {})
    ELSE IF ~usable
    THEN Resolved(prefix \o TypeErrorText,
                  IF ok THEN {} ELSE {Effect("mkdir", path.v)})
    ELSE Resolved(IF ok THEN text ELSE prefix \o FsErrorText,
                  {Effect(kind, path.v)})

\* `(args.path as string) || '.'`
OrDot(v) ==
    IF v.t \in {"undefined", "null"} \/ v = String(<<>>)
    THEN String(<<".">>) ELSE v

\* case 'browse' with BrowserTool.browse up to its first await
Browse(cfg, args) ==
    IF ~CanRead(args) THEN Thrown(TypeErrorText)
    ELSE IF ~cfg.browser
    THEN Resolved(Str("Error browsing ")
                  \o Raw("args.url", 12)
                  \o Str(": Browser tool is disabled"), {})
    ELSE Pending("browse", {Effect("browser", Get(args, "url").v)})

\* case 'claude_code' with ClaudeCodeTool.execute up to `spawn`
ClaudeCode(cfg, args) ==
    IF cfg.claudeCode # "enabled"
    THEN Resolved(Str("Claude Code tool is not enabled"), {})
    ELSE IF ~CanRead(args) THEN Thrown(TypeErrorText)
    ELSE IF ~cfg.keyReady
    THEN Resolved(Str("Claude Code error: ") \o Raw("result.error", 40)
                  \o Str("\n"), {})
    ELSE IF Get(args, "prompt").t # "string" THEN Thrown(TypeErrorText)
    ELSE Pending("ssh", {Effect("ssh", Get(args, "prompt").v)})

\* executeTool(name, args) up to its first await or its return
ExecuteTool(cfg, name, args, ok) ==
    CASE name = "bash" -> Bash(cfg, args)
      [] name = "read_file" ->
            File(cfg, args, Str("Error reading file: "), "readFile",
                 IF CanRead(args) THEN Get(args, "path") ELSE Undefined,
                 TRUE, ok, Raw("file", 12))
      [] name = "write_file" ->
            File(cfg, args, Str("Error writing file: "), "writeFile",
                 IF CanRead(args) THEN Get(args, "path") ELSE Undefined,
                 CanRead(args) /\ Get(args, "content").t = "string", ok,
                 Str("File written successfully: ") \o Raw("args.path", 1))
      [] name = "list_directory" ->
            File(cfg, args, Str("Error listing directory: "), "readdir",
                 IF CanRead(args) THEN OrDot(Get(args, "path")) ELSE Undefined,
                 TRUE, ok, Raw("files", 12))
      [] name = "browse" -> Browse(cfg, args)
      [] name = "claude_code" -> ClaudeCode(cfg, args)
      [] OTHER -> Resolved(Str("Unknown tool: ") \o Raw("name", 1), {})

NoCall ==
    [id |-> "", name |-> "", direct |-> TRUE, args |-> NonObject("undefined")]

\* no tool message has been pushed for the call in hand
NoToolMessage == Message("tool", <<>>, NoCalls, NoCallId)

\* a call of executeTool begins: from the loop of Agent.chat with the
\* arguments parseToolArgs made (direct FALSE), or from another caller
Begin(id, name, args, direct, ok) ==
    /\ tpc = "idle"
    /\ LET s == ExecuteTool(toolsConfig, name, args, ok)
       IN /\ tpc' = s.pc
          /\ tresult' = s.result
          /\ effects' = s.effects
    /\ tcall' = [id |-> id, name |-> name, direct |-> direct, args |-> args]
    /\ UNCHANGED <<toolsConfig, tevent, toolMessage>>

\* the for-of loop of Agent.chat takes a tool call
CallTool(toolCall, ok) ==
    Begin(toolCall.id, toolCall.name, ParseToolArgs(toolCall.arguments),
          FALSE, ok)

\* the callback of `exec` runs with the result r
ExecDone(r) ==
    /\ tpc = "exec"
    /\ tpc' = "done"
    /\ tresult' = Returned(BashText(r))
    /\ UNCHANGED <<toolsConfig, tcall, effects, tevent, toolMessage>>

\* BrowserTool.browse settles: with the page, or with an error it caught
BrowseDone(ok) ==
    /\ tpc = "browse"
    /\ tpc' = "done"
    /\ tresult' = Returned(IF ok
                           THEN Str("Title: ") \o Raw("title", 5)
                                \o Str("\n\n") \o Raw("content", 12)
                           ELSE Str("Error browsing ")
                                \o Raw("args.url", 12)
                                \o Str(": ") \o Raw("err.message", 20))
    /\ UNCHANGED <<toolsConfig, tcall, effects, tevent, toolMessage>>

\* `code` of the close event when the process was ended by a signal (null)
NoCode == 0 - 1

\* an event of the ssh process: 'close' with the exit code, `timedOut`
\* telling whether the timeout had fired; or 'error'
SshEvent(kind, code, timedOut) ==
    [kind |-> kind, code |-> code, timedOut |-> timedOut]
NoEvent == SshEvent("none", NoCode, FALSE)

ClaudeCodeResult(output, error, timedOut) ==
    [output |-> output, error |-> error, timedOut |-> timedOut]

\* (variant: the exit code is looked at before `timedOut`)
CloseResultCodeFirst(code, timedOut) ==
    IF code = 255
    THEN ClaudeCodeResult(<<>>,
             Str("SSH connection to ") \o Raw("user@host", 12)
             \o Str(" failed. Run this on your host to authorize the container:\n\n  ")
             \o Raw("instructions", 40), FALSE)
    ELSE IF code # 0 /\ code # NoCode
    THEN ClaudeCodeResult(Raw("output", 12),
                          Str("Exit code: ") \o Num(code), FALSE)
    ELSE IF timedOut
    THEN ClaudeCodeResult(Raw("output", 12), Str("Timed out"), TRUE)
    ELSE ClaudeCodeResult(Raw("output", 12), <<>>, FALSE)

\* the handler of 'close' in ClaudeCodeTool.execute
CloseResult(code, timedOut) ==
    IF timedOut
    THEN ClaudeCodeResult(Raw("output", 12), Str("Timed out"), TRUE)
    ELSE IF code # 0 /\ code # NoCode
    THEN IF code = 255
         THEN ClaudeCodeResult(<<>>,
                  Str("SSH connection to ") \o Raw("user@host", 12)
                  \o Str(" failed. Run this on your host to authorize the container:\n\n  ")
                  \o Raw("instructions", 40), FALSE)
         ELSE ClaudeCodeResult(Raw("output", 12),
                               Str("Exit code: ") \o Num(code), FALSE)
    ELSE ClaudeCodeResult(Raw("output", 12), <<>>, FALSE)

\* the handler of 'error'
ErrorResult ==
    ClaudeCodeResult(<<>>, Str("Failed to run ssh: ") \o Raw("err.message", 20),
                     FALSE)

\* executeTool, case 'claude_code', on the result of execute
ClaudeCodeText(result) ==
    IF result.error # <<>>
    THEN Str("Claude Code error: ") \o result.error \o Str("\n")
         \o result.output
    ELSE IF result.timedOut
    THEN Str("Claude Code timed out.\n") \o result.output
    ELSE result.output

\* the first 'close' or 'error' of the ssh process: ClaudeCodeTool.execute
\* resolves and executeTool returns
SshDone(event) ==
    /\ tpc = "ssh"
    /\ tpc' = "done"
    /\ tevent' = event
    /\ tresult' = Returned(ClaudeCodeText(
                       IF event.kind = "close"
                       THEN CloseResult(event.code, event.timedOut)
                       ELSE ErrorResult))
    /\ UNCHANGED <<toolsConfig, tcall, effects, toolMessage>>

\* Agent.chat after `await executeTool`: the catch, the truncation and the
\* push of the tool message
RecordResult ==
    /\ tpc = "done"
    /\ ~tcall.direct
    /\ tpc' = "recorded"
    /\ toolMessage' =
          Message("tool",
                  Truncate(ToolResult([threw |-> tresult.kind = "raised",
                                       text |-> tresult.text])),
                  NoCalls, tcall.id)
    /\ UNCHANGED <<toolsConfig, tcall, tresult, effects, tevent>>

\* the caller has taken what the call gave: executeTool and the tools keep
\* nothing of a call
Forget ==
    /\ tpc = "recorded" \/ (tpc = "done" /\ tcall.direct)
    /\ tpc' = "idle"
    /\ tcall' = NoCall
    /\ tresult' = NotReturned
    /\ effects' = {}
    /\ tevent' = NoEvent
    /\ toolMessage' = NoToolMessage
    /\ UNCHANGED toolsConfig

(***************************************************************************)
(* ChannelManager over several sessions.  Of a session the manager uses    *)
(* start, stop and isConnected; here a session is the fields these touch:  *)
(* handler (is one set), stopping, connected, socket (is one held) and     *)
(* live, the sockets made for it and not ended.  The server does not close *)
(* a connection in these runs, and one call of the manager is made at a    *)
(* time.                                                                   *)
(***************************************************************************)
\* the keys of `channels` in the order of their insertion
Registered == <<"whatsapp", "support">>
Names == {Registered[i] : i \in 1..Len(Registered)}

\* a name that is no key of `channels`
UnknownName == "signal"

\* `autoStart` of a ChannelConfig: true, false or absent
AutoStarts == {"true", "false", "absent"}

NewSession ==
    [handler |-> FALSE, stopping |-> FALSE, connected |-> FALSE,
     socket |-> FALSE, live |-> 0]

\* WhatsAppChannel.start up to `await this.connect()`
SessionStart(s) == [s EXCEPT !.handler = TRUE, !.stopping = FALSE]

\* connect() has made the socket
SessionConnect(s) == [s EXCEPT !.socket = TRUE, !.live = @ + 1]

\* WhatsAppChannel.stop
SessionStop(s) ==
    [s EXCEPT !.stopping = TRUE, !.socket = FALSE, !.connected = FALSE,
              !.live = IF s.socket THEN @ - 1 ELSE @]

\* stop, when `this.socket.end` throws
SessionStopThrows(s) == [s EXCEPT !.stopping = TRUE]

\* WhatsAppChannel.isConnected
IsConnected(s) == s.connected

\* the call of the manager in hand or made last: the operation, its
\* argument, the position of the loop of startAll, and whether the call is
\* at its await
Call(op, name, i, at) == [op |-> op, name |-> name, i |-> i, at |-> at]
NoMgrCall == Call("none", "", 0, "idle")

Log(what, name) == [what |-> what, name |-> name]

\* the first session from position i on that startAll does not skip, or 0
NextToStart(i) ==
    LET js == {j \in i..Len(Registered) : autoStart[Registered[j]] # "false"}
    IN IF js = {} THEN 0 ELSE CHOOSE j \in js : \A k \in js : j <= k

\* `Channel skipped (autoStart=false)` for the sessions from i to j
Skipped(i, j) ==
    LET js == {k \in i..j : autoStart[Registered[k]] = "false"}
        F[k \in 0..Len(Registered)] ==
            IF k = 0 THEN <<>>
            ELSE IF k \in js
                 THEN Append(F[k - 1], Log("skipped", Registered[k]))
            ELSE F[k - 1]
    IN F[Len(Registered)]

\* (variant: the loop of startAll is left when a start fails)
ContinueIfStarted(i, ok) == IF ok THEN NextToStart(i + 1) ELSE 0

\* where the loop of startAll goes on after the try/catch around session i
Continue(i, ok) == NextToStart(i + 1)

\* the loop of startAll from position j: the skipped sessions before j are
\* logged; session j is started and awaited, or with j = 0 the loop ends.
\* ss, log and att are the sessions, the log and the sessions attempted so
\* far
StartFrom(from, j, ss, log, att) ==
    /\ mlog' = log \o Skipped(from, IF j = 0 THEN Len(Registered) ELSE j - 1)
    /\ IF j = 0
       THEN /\ sessions' = ss
            /\ mpc' = Call("startAll", "", 0, "idle")
            /\ mret' = Returned(<<>>)
            /\ attempted' = att
       ELSE /\ sessions' = [ss EXCEPT ![Registered[j]] = SessionStart(@)]
            /\ mpc' = Call("startAll", "", j, "await")
            /\ mret' = NotReturned
            /\ attempted' = att \cup {Registered[j]}

\* setHandler(handler)
SetHandler ==
    /\ ~mgrHandler
    /\ mgrHandler' = TRUE
    /\ UNCHANGED <<autoStart, sessions, mpc, mret, mlog, attempted, mcalls>>

\* a call of the manager begins
BeginCall ==
    /\ mpc.at = "idle"
    /\ mcalls < MaxMgrCalls
    /\ mcalls' = mcalls + 1
    /\ UNCHANGED <<mgrHandler, autoStart>>

\* a call fails before it touches a session
Fails(op, name, text) ==
    /\ mpc' = Call(op, name, 0, "idle")
    /\ mret' = Raised(text)
    /\ attempted' = {}
    /\ mlog' = <<>>
    /\ UNCHANGED sessions

\* startAll() up to its first await, or to its end when it starts nothing
StartAll ==
    /\ BeginCall
    /\ StartFrom(1, IF mgrHandler THEN NextToStart(1) ELSE 0, sessions, <<>>,
                 {})

\* startChannel(name) up to its await
StartChannel(name) ==
    /\ BeginCall
    /\ IF name \notin Names
       THEN Fails("startChannel", name,
                  Str("Channel not found: ") \o Raw("name", 1))
       ELSE IF IsConnected(sessions[name])
       THEN Fails("startChannel", name,
                  Str("Channel already running: ") \o Raw("name", 1))
       ELSE IF ~mgrHandler
       THEN Fails("startChannel", name, Str("No message handler set"))
       ELSE /\ sessions' = [sessions EXCEPT ![name] = SessionStart(@)]
            /\ mpc' = Call("startChannel", name, 0, "await")
            /\ mret' = NotReturned
            /\ attempted' = {name}
            /\ mlog' = <<>>

\* `await channel.start(this.handler)` settles: connect() has made the
\* socket, or one of its awaits rejected
StartSettles(ok) ==
    /\ mpc.at = "await"
    /\ LET name == IF mpc.op = "startAll" THEN Registered[mpc.i] ELSE mpc.name
           ss == IF ok THEN [sessions EXCEPT ![name] = SessionConnect(@)]
                 ELSE sessions
       IN IF mpc.op = "startChannel"
          THEN /\ sessions' = ss
               /\ mpc' = [mpc EXCEPT !.at = "idle"]
               /\ mret' = IF ok THEN Returned(<<>>)
                          ELSE Raised(Raw("err.message", 20))
               /\ mlog' = IF ok THEN <<Log("started", name)>> ELSE <<>>
               /\ UNCHANGED attempted
          ELSE StartFrom(mpc.i + 1, Continue(mpc.i, ok), ss,
                         Append(mlog, Log(IF ok THEN "started" ELSE "failed",
                                          name)),
                         attempted)
    /\ UNCHANGED <<mgrHandler, autoStart, mcalls>>

\* stopChannel(name); `throws` is whether `socket.end` throws
StopChannel(name, throws) ==
    /\ BeginCall
    /\ IF name \notin Names
       THEN Fails("stopChannel", name,
                  Str("Channel not found: ") \o Raw("name", 1))
       ELSE IF ~IsConnected(sessions[name])
       THEN Fails("stopChannel", name,
                  Str("Channel not running: ") \o Raw("name", 1))
       ELSE /\ sessions' = [sessions EXCEPT ![name] =
                               IF throws /\ @.socket
                               THEN SessionStopThrows(@) ELSE SessionStop(@)]
            /\ mpc' = Call("stopChannel", name, 0, "idle")
            /\ mret' = IF throws /\ sessions[name].socket
                       THEN Raised(Raw("err.message", 20))
                       ELSE Returned(<<>>)
            /\ attempted' = {name}
            /\ mlog' = IF throws /\ sessions[name].socket THEN <<>>
                       ELSE <<Log("stopped", name)>>

\* stopAll(); `throwing` are the sessions whose `socket.end` throws
StopAll(throwing) ==
    /\ BeginCall
    /\ LET thrown == {n \in throwing : sessions[n].socket}
       IN /\ sessions' = [n \in Names |->
                            IF n \in thrown THEN SessionStopThrows(sessions[n])
                            ELSE SessionStop(sessions[n])]
          /\ mlog' = [i \in 1..Len(Registered) |->
                        Log(IF Registered[i] \in thrown THEN "failed"
                            ELSE "stopped", Registered[i])]
    /\ mpc' = Call("stopAll", "", 0, "idle")
    /\ mret' = Returned(<<>>)
    /\ attempted' = Names

\* the connection.update handler of a socket not ended: connection 'open'
SessionOpen(name) ==
    /\ sessions[name].live > 0
    /\ ~sessions[name].connected
    /\ sessions' = [sessions EXCEPT ![name].connected = TRUE]
    /\ UNCHANGED <<mgrHandler, autoStart, mpc, mret, mlog, attempted, mcalls>>

\* the manager after construction
MgrIdle ==
    /\ mgrHandler = FALSE
    /\ sessions = [n \in Names |-> NewSession]
    /\ mpc = NoMgrCall
    /\ mret = NotReturned
    /\ mlog = <<>>
    /\ attempted = {}
    /\ mcalls = 0

(***************************************************************************)
(* The channel session after construction.  Handlers are the invocations   *)
(* of the messages.upsert handler that can be in flight at one time.       *)
(***************************************************************************)
Handlers == {1, 2}

\* the configuration of the session: the filters are on, one sender number
\* is allowed
DefaultConfig ==
    [replyOnlyToDirectMessages |-> TRUE,
     allowedSenders |-> {[user |-> 1, server |-> ""]}]

NoSockets == [connecting |-> 0, open |-> 0, ended |-> 0]

\* a step of the session: the event, the upsert handler, the message id and
\* the close reason concerned ("" and 0 where there is none)
Event(name, h, id, reason) ==
    [op |-> name, h |-> h, id |-> id, reason |-> reason]

ChannelInit ==
    /\ handler = FALSE
    /\ stopping = FALSE
    /\ connected = FALSE
    /\ reconnectAttempts = 0
    /\ socket = "null"
    /\ detached = NoSockets
    /\ connects = 0
    /\ timers = <<>>
    /\ processedMessages = <<>>
    /\ botSentMessages = <<>>
    /\ messageStore = {}
    /\ hpc = [h \in Handlers |-> "idle"]
    /\ batch = [h \in Handlers |-> <<>>]
    /\ reply = [h \in Handlers |-> FALSE]
    /\ signals = [h \in Handlers |-> <<>>]
    /\ lastEvent = Event("init", 0, 0, "")
    /\ failures = 0
    /\ starts = 0
    /\ deliveries = 0
    /\ inbound = 0
    /\ replies = 0
    /\ invoked = <<>>

AgentInit ==
    /\ conversations = [id \in ConvIds |-> NoRef]
    /\ heap = [r \in ArrayRefs |-> <<>>]
    /\ pc = [p \in Procs |-> "idle"]
    /\ convId = [p \in Procs |-> "A"]
    /\ messages = [p \in Procs |-> NoRef]
    /\ maxIterations = [p \in Procs |-> 0]
    /\ response = [p \in Procs |-> NoResponse]
    /\ callIdx = [p \in Procs |-> 0]
    /\ ret = [p \in Procs |-> NotReturned]
    /\ requests = [p \in Procs |-> 0]
    /\ toolRuns = [p \in Procs |-> 0]
    /\ before = [p \in Procs |-> <<>>]
    /\ rounds = [p \in Procs |-> <<>>]
    /\ appended = [p \in Procs |-> <<>>]
    /\ lastOp = Op("init", 0, "", <<>>)
    /\ ops = 0
    /\ variants = 0
    /\ sent = 0
    /\ peers = [p \in Procs |-> {}]

\* no tool has been called
ToolsIdle ==
    /\ tpc = "idle"
    /\ tcall = NoCall
    /\ tresult = NotReturned
    /\ effects = {}
    /\ tevent = NoEvent
    /\ toolMessage = NoToolMessage

\* MemoryManager after construction with nothing on disk
StartOfTime == 100

MemoryEmpty ==
    /\ memEnabled = TRUE
    /\ store = <<>>
    /\ now = StartOfTime
    /\ memOps = 0

\* BrowserTool after construction
BrowseCalls == {1, 2}
NoBrowser == 0

BrowserIdle ==
    /\ browser = NoBrowser
    /\ launched = 0
    /\ closed = {}
    /\ bpc = [c \in BrowseCalls |-> "idle"]
    /\ closing = NoBrowser
    /\ browses = 0
    /\ cleaned = FALSE

\* every tool is enabled and no command list is configured
DefaultTools ==
    ToolsConfig(BashConfig(TRUE, {}, {}), TRUE, TRUE, "absent", FALSE)

Init ==
    /\ AgentInit
    /\ ChannelInit
    /\ config = DefaultConfig
    /\ ToolsIdle
    /\ toolsConfig = DefaultTools
    /\ MgrIdle
    /\ MemoryEmpty
    /\ BrowserIdle
    /\ autoStart = [n \in Names |-> "absent"]

(***************************************************************************)
(* Agent.chat, cut at its awaits.                                          *)
(***************************************************************************)

\* The head of the while loop, reached from the start of chat() and from the
\* `continue` after a tool round: either the next request is sent to the LLM
\* or the loop is left, the history stored and the fixed text returned.
\* req is the number of requests the invocation has issued so far.
LoopHead(p, id, ref, mi, req) ==
    IF LoopCondition(mi)
    THEN /\ maxIterations' = [maxIterations EXCEPT ![p] = mi - 1]
         /\ pc' = [pc EXCEPT ![p] = "llm"]
         /\ requests' = [requests EXCEPT ![p] = req + 1]
         /\ ret' = [ret EXCEPT ![p] = NotReturned]
         /\ UNCHANGED conversations
    ELSE /\ conversations' = Store(conversations, id, ref)
         /\ ret' = [ret EXCEPT ![p] = Returned(MaxIterationsText)]
         /\ pc' = [pc EXCEPT ![p] = "idle"]
         /\ maxIterations' = [maxIterations EXCEPT ![p] = mi]
         /\ requests' = [requests EXCEPT ![p] = req]

\* chat(conversationId, userMessage) up to the first `await this.llm.chat`
ChatStart(p, id, text) ==
    /\ pc[p] = "idle"
    /\ LET fresh == conversations[id] = NoRef
           ref == IF fresh THEN NewArray ELSE conversations[id]
           h0 == IF fresh THEN <<>> ELSE heap[ref]
           h1 == Seed(h0)
           h2 == PushUser(h1, text)
       IN /\ messages' = [messages EXCEPT ![p] = ref]
          /\ convId' = [convId EXCEPT ![p] = id]
          /\ before' = [before EXCEPT ![p] = Stored(id)]
          /\ appended' = [appended EXCEPT ![p] = SubSeq(h2, Len(h0) + 1, Len(h2))]
          /\ LoopHead(p, id, ref, MAX_ITERATIONS, 0)
          /\ heap' = Collect([heap EXCEPT ![ref] = h2], conversations', pc',
                             messages')
    /\ response' = [response EXCEPT ![p] = NoResponse]
    /\ callIdx' = [callIdx EXCEPT ![p] = 0]
    /\ toolRuns' = [toolRuns EXCEPT ![p] = 0]
    /\ rounds' = [rounds EXCEPT ![p] = <<>>]
    /\ lastOp' = Op("ChatStart", p, id, text)

\* (variant: no catch around llm.chat, as in the earlier Agent of lines
\* 340-447: the rejection leaves chat)
LLMFailRaises(p, errMessage) ==
    /\ pc[p] = "llm"
    /\ pc' = [pc EXCEPT ![p] = "idle"]
    /\ ret' = [ret EXCEPT ![p] = Raised(errMessage)]
    /\ lastOp' = Op("LLMFail", p, convId[p], errMessage)
    /\ heap' = Collect(heap, conversations, pc', messages)
    /\ UNCHANGED <<conversations, convId, messages, maxIterations, response,
                   callIdx, requests, toolRuns, before, rounds, appended>>

\* `await this.llm.chat` throws: the catch stores the history and returns
LLMFail(p, errMessage) ==
    /\ pc[p] = "llm"
    /\ conversations' = Store(conversations, convId[p], messages[p])
    /\ pc' = [pc EXCEPT ![p] = "idle"]
    /\ ret' = [ret EXCEPT ![p] = Returned(LLMFailedText(errMessage))]
    /\ lastOp' = Op("LLMFail", p, convId[p], errMessage)
    /\ heap' = Collect(heap, conversations', pc', messages)
    /\ UNCHANGED <<convId, messages, maxIterations, response, callIdx,
                   requests, toolRuns, before, rounds, appended>>

\* `await this.llm.chat` resolves with tool calls: the assistant message is
\* pushed and the first tool is started (`await executeTool`)
LLMToolCalls(p, resp) ==
    /\ pc[p] = "llm"
    /\ HasToolCalls(resp)
    /\ response' = [response EXCEPT ![p] = resp]
    /\ heap' = [heap EXCEPT ![messages[p]] = Append(@, AssistantCallMessage(resp))]
    /\ appended' = [appended EXCEPT ![p] = Append(@, AssistantCallMessage(resp))]
    /\ callIdx' = [callIdx EXCEPT ![p] = 1]
    /\ pc' = [pc EXCEPT ![p] = "tool"]
    /\ toolRuns' = [toolRuns EXCEPT ![p] = @ + 1]
    /\ rounds' = [rounds EXCEPT ![p] = Append(@, resp.tool_calls)]
    /\ lastOp' = Op("LLMToolCalls", p, convId[p], resp)
    /\ UNCHANGED <<conversations, convId, messages, maxIterations, ret,
                   requests, before>>

\* `await this.llm.chat` resolves without tool calls: the final reply
LLMFinal(p, resp) ==
    /\ pc[p] = "llm"
    /\ ~HasToolCalls(resp)
    /\ LET assistantMessage == FinalText(resp.content)
           m == Message("assistant", assistantMessage, NoCalls, NoCallId)
       IN /\ conversations' = Store(conversations, convId[p], messages[p])
          /\ pc' = [pc EXCEPT ![p] = "idle"]
          /\ heap' = Collect([heap EXCEPT ![messages[p]] = Append(@, m)],
                             conversations', pc', messages)
          /\ appended' = [appended EXCEPT ![p] = Append(@, m)]
          /\ ret' = [ret EXCEPT ![p] = Returned(assistantMessage)]
    /\ response' = [response EXCEPT ![p] = resp]
    /\ lastOp' = Op("LLMFinal", p, convId[p], resp)
    /\ UNCHANGED <<convId, messages, maxIterations, callIdx,
                   requests, toolRuns, before, rounds>>

\* (variant: no catch around executeTool: what the tool throws leaves chat)
ToolDoneNoCatch(p, outcome) ==
    /\ pc[p] = "tool"
    /\ outcome.threw
    /\ pc' = [pc EXCEPT ![p] = "idle"]
    /\ ret' = [ret EXCEPT ![p] = Raised(outcome.text)]
    /\ lastOp' = Op("ToolDone", p, convId[p], outcome)
    /\ heap' = Collect(heap, conversations, pc', messages)
    /\ UNCHANGED <<conversations, convId, messages, maxIterations, response,
                   callIdx, requests, toolRuns, before, rounds, appended>>

\* `await executeTool` settles (resolves, or throws into the catch): the
\* result is truncated and pushed; then the next tool of the response is
\* started, or after the last one the loop continues at its head
ToolDone(p, outcome) ==
    /\ pc[p] = "tool"
    /\ LET m == ToolMessage(response[p], callIdx[p], outcome)
       IN /\ IF callIdx[p] < Len(response[p].tool_calls)
             THEN /\ callIdx' = [callIdx EXCEPT ![p] = @ + 1]
                  /\ toolRuns' = [toolRuns EXCEPT ![p] = @ + 1]
                  /\ UNCHANGED <<conversations, pc, maxIterations, ret, requests>>
             ELSE /\ LoopHead(p, convId[p], messages[p], maxIterations[p],
                              requests[p])
                  /\ UNCHANGED <<callIdx, toolRuns>>
          /\ heap' = Collect([heap EXCEPT ![messages[p]] = Append(@, m)],
                             conversations', pc', messages)
          /\ appended' = [appended EXCEPT ![p] = Append(@, m)]
    /\ lastOp' = Op("ToolDone", p, convId[p], outcome)
    /\ UNCHANGED <<convId, messages, response, before, rounds>>

\* clearConversation(conversationId)
ClearConversation(id) ==
    /\ conversations' = Delete(conversations, id)
    /\ heap' = Collect(heap, conversations', pc, messages)
    /\ lastOp' = Op("ClearConversation", 0, id, <<>>)
    /\ UNCHANGED <<pc, convId, messages, maxIterations,
                   response, callIdx, ret, requests, toolRuns, before, rounds,
                   appended>>

(***************************************************************************)
(* The environment: what callers send, what the LLM answers, how a tool    *)
(* execution ends.                                                         *)
(***************************************************************************)
UserTexts == {Str("What is 2 + 2?")}

Call1 == ToolCall("call_1", "list_directory", "{\"path\":\".\"}")
Call2 == ToolCall("call_2", "bash", "{\"command\":\"ls\"}")

ToolResponses ==
    { [content |-> <<>>, tool_calls |-> <<Call1>>],
      [content |-> Str("Let me check."), tool_calls |-> <<Call1, Call2>>],
      [content |-> <<>>, tool_calls |-> <<Call2, Call1>>] }

FinalResponses == [content : {<<>>, Str("4")}, tool_calls : {NoCalls}]

ErrMessages == {<<>>, Str("request timed out")}

\* a tool returns a text of some length, or throws with some message
ResultLens == {12, MAX_TOOL_RESULT, MAX_TOOL_RESULT + 1}
ThrownLens == {20, MAX_TOOL_RESULT - 11}

Outcomes ==
    {[threw |-> FALSE, text |-> Raw("output", n)] : n \in ResultLens}
    \cup {[threw |-> TRUE, text |-> Raw("error", n)] : n \in ThrownLens}

\* The answers a run may give any number of times.  Every other answer
\* counts against MaxVariants and is given only in the rounds VariantRounds
\* of an invocation.
DefaultToolResponse == [content |-> <<>>, tool_calls |-> <<Call1>>]
DefaultFinalResponse == [content |-> Str("4"), tool_calls |-> NoCalls]
DefaultOutcome == [threw |-> FALSE, text |-> Raw("output", 12)]
DefaultErrMessage == Str("request timed out")

VariantRounds == {1}

Budget(p, isDefault) ==
    IF isDefault THEN UNCHANGED variants
    ELSE /\ variants < MaxVariants
         /\ requests[p] \in VariantRounds
         /\ variants' = variants + 1

\* no invocation is in flight
Quiet == \A p \in Procs : pc[p] = "idle"

\* the run's count of LLM requests, after a step of caller p
Count(p) == sent' = IF pc[p] # "llm" /\ pc'[p] = "llm" THEN sent + 1 ELSE sent

\* the invocations in flight for the id when caller p calls chat: they and
\* the new invocation overlap
Meet(p, id) ==
    LET inFlight == {q \in Procs \ {p} : pc[q] # "idle" /\ convId[q] = id}
    IN peers' = [q \in Procs |->
                    IF q = p THEN inFlight
                    ELSE IF q \in inFlight THEN peers[q] \cup {p}
                    ELSE peers[q]]

\* Caller p calls chat with an id of `ids`; the run begins at most maxOps
\* operations and sends at most maxSent LLM requests.
BoundedStartStep(p, ids, maxOps, maxSent) ==
    \E id \in ids, text \in UserTexts :
        /\ ops < maxOps
        /\ sent < maxSent
        /\ ChatStart(p, id, text)
        /\ Meet(p, id)
        /\ ops' = ops + 1
        /\ Count(p)
        /\ UNCHANGED <<variants, chanVars, toolVars, mgrVars, auxVars>>

StartStep(p, ids, maxSent) == BoundedStartStep(p, ids, MaxOps, maxSent)

FailStep(p, errs) ==
    \E e \in errs :
        /\ LLMFail(p, e)
        /\ Budget(p, e = DefaultErrMessage)
        /\ UNCHANGED <<ops, sent, peers, chanVars, toolVars, mgrVars, auxVars>>

ToolCallsStep(p, maxSent, resps) ==
    \E r \in resps :
        /\ sent < maxSent \/ maxIterations[p] = 0
        /\ LLMToolCalls(p, r)
        /\ Budget(p, r = DefaultToolResponse)
        /\ UNCHANGED <<ops, sent, peers, chanVars, toolVars, mgrVars, auxVars>>

FinalStep(p, resps) ==
    \E r \in resps :
        /\ LLMFinal(p, r)
        /\ Budget(p, r = DefaultFinalResponse)
        /\ UNCHANGED <<ops, sent, peers, chanVars, toolVars, mgrVars, auxVars>>

ToolStep(p, outcomes) ==
    \E o \in outcomes :
        /\ ToolDone(p, o)
        /\ Budget(p, o = DefaultOutcome)
        /\ Count(p)
        /\ UNCHANGED <<ops, peers, chanVars, toolVars, mgrVars, auxVars>>

(***************************************************************************)
(* Spec: one caller, operations do not overlap.                            *)
(***************************************************************************)
Caller == CHOOSE p \in Procs : \A q \in Procs : p <= q
CallerIds == {"A"}

ClearStep ==
    \E id \in CallerIds :
        /\ Quiet
        /\ ops < MaxOps
        /\ conversations[id] # NoRef
        /\ ClearConversation(id)
        /\ UNCHANGED <<ops, variants, sent, peers, chanVars, toolVars, mgrVars, auxVars>>

Next ==
    \/ StartStep(Caller, CallerIds, MaxRequests)
    \/ FailStep(Caller, ErrMessages)
    \/ ToolCallsStep(Caller, MaxRequests, ToolResponses)
    \/ FinalStep(Caller, FinalResponses)
    \/ ToolStep(Caller, Outcomes)
    \/ ClearStep

Spec == Init /\ [][Next]_vars

(***************************************************************************)
(* ConcSpec: the callers' invocations overlap.  An invocation is suspended *)
(* at its awaits, and there any step of another invocation, or a           *)
(* clearConversation, may run.  The LLM and the tools give their default   *)
(* answers.                                                                *)
(***************************************************************************)
ConcClearStep ==
    \E id \in ConvIds :
        /\ ops < MaxOps
        /\ ClearConversation(id)
        /\ ops' = ops + 1
        /\ UNCHANGED <<variants, sent, peers, chanVars, toolVars, mgrVars, auxVars>>

ConcNext ==
    \/ \E p \in Procs : StartStep(p, ConvIds, MaxConcRequests)
    \/ \E p \in Procs : FailStep(p, {DefaultErrMessage})
    \/ \E p \in Procs : ToolCallsStep(p, MaxConcRequests, {DefaultToolResponse})
    \/ \E p \in Procs : FinalStep(p, {DefaultFinalResponse})
    \/ \E p \in Procs : ToolStep(p, {DefaultOutcome})
    \/ ConcClearStep

ConcSpec == Init /\ [][ConcNext]_vars

(***************************************************************************)
(* OverlapSpec: the callers' invocations overlap on one conversation id    *)
(* (two HTTP calls with the same conversation_id, or two inbound batches   *)
(* of one sender); the conversation is not cleared.                        *)
(***************************************************************************)
OverlapNext ==
    \/ \E p \in Procs :
           BoundedStartStep(p, CallerIds, MaxOverlapOps, MaxOverlapRequests)
    \/ \E p \in Procs : FailStep(p, {DefaultErrMessage})
    \/ \E p \in Procs :
           ToolCallsStep(p, MaxOverlapRequests, {DefaultToolResponse})
    \/ \E p \in Procs : FinalStep(p, {DefaultFinalResponse})
    \/ \E p \in Procs : ToolStep(p, {DefaultOutcome})

OverlapSpec == Init /\ [][OverlapNext]_vars

(***************************************************************************)
(* ClearSpec: one caller, whose conversation may be cleared at any time,   *)
(* also while an invocation of chat is suspended at an await.  The LLM and *)
(* the tools give their default answers.                                   *)
(***************************************************************************)
ClearAnyTimeStep ==
    \E id \in CallerIds :
        /\ ops < MaxClearOps
        /\ ClearConversation(id)
        /\ ops' = ops + 1
        /\ UNCHANGED <<variants, sent, peers, chanVars, toolVars, mgrVars, auxVars>>

ClearNext ==
    \/ BoundedStartStep(Caller, CallerIds, MaxClearOps, MaxClearRequests)
    \/ FailStep(Caller, {DefaultErrMessage})
    \/ ToolCallsStep(Caller, MaxClearRequests, {DefaultToolResponse})
    \/ FinalStep(Caller, {DefaultFinalResponse})
    \/ ToolStep(Caller, {DefaultOutcome})
    \/ ClearAnyTimeStep

ClearSpec == Init /\ [][ClearNext]_vars

(***************************************************************************)
(* RoundSpec: one caller; the LLM may ask for one tool or for two in any   *)
(* round, and any tool execution may return or throw.                      *)
(***************************************************************************)
RoundOutcomes ==
    {DefaultOutcome, [threw |-> TRUE, text |-> Raw("error", 20)]}

RoundNext ==
    \/ BoundedStartStep(Caller, CallerIds, MaxRoundOps, MaxRoundRequests)
    \/ /\ LLMFail(Caller, DefaultErrMessage)
       /\ UNCHANGED <<ops, variants, sent, peers, chanVars, toolVars, mgrVars, auxVars>>
    \/ \E r \in ToolResponses :
          /\ sent < MaxRoundRequests \/ maxIterations[Caller] = 0
          /\ LLMToolCalls(Caller, r)
          /\ UNCHANGED <<ops, variants, sent, peers, chanVars, toolVars, mgrVars, auxVars>>
    \/ /\ LLMFinal(Caller, DefaultFinalResponse)
       /\ UNCHANGED <<ops, variants, sent, peers, chanVars, toolVars, mgrVars, auxVars>>
    \/ \E o \in RoundOutcomes :
          /\ ToolDone(Caller, o)
          /\ Count(Caller)
          /\ UNCHANGED <<ops, variants, peers, chanVars, toolVars, mgrVars, auxVars>>

RoundSpec == Init /\ [][RoundNext]_vars

(***************************************************************************)
(* The connection life cycle of the channel session: start, stop, connect  *)
(* and the connection.update handler.                                      *)
(***************************************************************************)
Reasons == {"loggedOut", "connectionLost"}

\* (variant: the delay is computed before the increment)
ReconnectDelayBeforeIncrement(attempts) ==
    IF BASE_DELAY * 2^(attempts - 1) < MAX_DELAY
    THEN BASE_DELAY * 2^(attempts - 1) ELSE MAX_DELAY

\* `Math.min(1000 * Math.pow(2, this.reconnectAttempts), 60000)`
ReconnectDelay(attempts) ==
    IF BASE_DELAY * 2^attempts < MAX_DELAY
    THEN BASE_DELAY * 2^attempts ELSE MAX_DELAY

\* (variant: the open event leaves the count)
AttemptsOnOpenKept(attempts) == attempts

\* `this.reconnectAttempts = 0` of the open event
AttemptsOnOpen(attempts) == 0

\* (variant: `<=` for `<`)
CanRetryInclusive(attempts) == attempts <= maxReconnectAttempts

\* `this.reconnectAttempts < this.maxReconnectAttempts`
CanRetry(attempts) == attempts < maxReconnectAttempts

\* (variant: every reason reconnects)
ShouldReconnectAlways(reason) == TRUE

\* `statusCode !== DisconnectReason.loggedOut`
ShouldReconnect(reason) == reason # "loggedOut"

\* (variant: the close handler does not look at `stopping`)
SuppressedNever(stop) == FALSE

\* `if (this.stopping) return`
Suppressed(stop) == stop

\* a socket that can still emit open or close
Live(state) == state \in {"connecting", "open"}

\* the sequence t without its element i
Without(t, i) == SubSeq(t, 1, i - 1) \o SubSeq(t, i + 1, Len(t))

\* start(handler) up to the first await of connect()
Start ==
    /\ handler' = TRUE
    /\ stopping' = FALSE
    /\ connects' = connects + 1
    /\ starts' = starts + 1
    /\ lastEvent' = Event("start", 0, 0, "")
    /\ UNCHANGED <<connected, reconnectAttempts, socket, detached, timers,
                   failures>>

\* stop(): the socket is ended (it will emit its close) and forgotten
Stop ==
    /\ stopping' = TRUE
    /\ socket' = "null"
    /\ detached' = IF Live(socket)
                   THEN [detached EXCEPT !.ended = @ + 1] ELSE detached
    /\ connected' = FALSE
    /\ lastEvent' = Event("stop", 0, 0, "")
    /\ UNCHANGED <<handler, reconnectAttempts, connects, timers, failures,
                   starts>>

\* connect() after its awaits: makeWASocket, `this.socket = socket`, the
\* handlers are registered; the socket this.socket referred to lives on
ConnectDone ==
    /\ connects > 0
    /\ connects' = connects - 1
    /\ socket' = "connecting"
    /\ detached' = IF Live(socket)
                   THEN [detached EXCEPT ![socket] = @ + 1] ELSE detached
    /\ lastEvent' = Event("connect", 0, 0, "")
    /\ UNCHANGED <<handler, stopping, connected, reconnectAttempts, timers,
                   failures, starts>>

\* an await of connect() rejects: no socket is made
ConnectFail ==
    /\ connects > 0
    /\ connects' = connects - 1
    /\ lastEvent' = Event("connectFailed", 0, 0, "")
    /\ UNCHANGED <<handler, stopping, connected, reconnectAttempts, socket,
                   detached, timers, failures, starts>>

\* connection.update with connection === 'open', from the socket this.socket
\* refers to (current) or from another one
ConnectionOpen(current) ==
    /\ IF current
       THEN /\ socket = "connecting"
            /\ socket' = "open"
            /\ UNCHANGED detached
       ELSE /\ detached.connecting > 0
            /\ detached' = [detached EXCEPT !.connecting = @ - 1,
                                            !.open = @ + 1]
            /\ UNCHANGED socket
    /\ connected' = TRUE
    /\ reconnectAttempts' = AttemptsOnOpen(reconnectAttempts)
    /\ failures' = 0
    /\ lastEvent' = Event("open", 0, 0, "")
    /\ UNCHANGED <<handler, stopping, connects, timers, starts>>

\* connection.update with connection === 'close' and the reason `reason`,
\* from the socket `from`: "current", or a detached one in the state `from`
ConnectionClose(from, reason) ==
    /\ IF from = "current"
       THEN /\ Live(socket)
            /\ socket' = "closed"
            /\ UNCHANGED detached
       ELSE /\ detached[from] > 0
            /\ from = "ended" => reason # "loggedOut"
            /\ detached' = [detached EXCEPT ![from] = @ - 1]
            /\ UNCHANGED socket
    /\ connected' = FALSE
    /\ IF Suppressed(stopping)
       THEN UNCHANGED <<reconnectAttempts, timers>>
       ELSE IF ShouldReconnect(reason) /\ CanRetry(reconnectAttempts)
            THEN /\ reconnectAttempts' = reconnectAttempts + 1
                 /\ timers' = Append(timers,
                                     ReconnectDelay(reconnectAttempts + 1))
            ELSE UNCHANGED <<reconnectAttempts, timers>>
    /\ failures' = IF ~stopping /\ reason # "loggedOut"
                   THEN failures + 1 ELSE failures
    /\ lastEvent' = Event("close", 0, 0, reason)
    /\ UNCHANGED <<handler, stopping, connects, starts>>

\* a reconnect timer fires: `() => this.connect()`
TimerFire(i) ==
    /\ i \in 1..Len(timers)
    /\ timers' = Without(timers, i)
    /\ connects' = connects + 1
    /\ lastEvent' = Event("timer", 0, 0, "")
    /\ UNCHANGED <<handler, stopping, connected, reconnectAttempts, socket,
                   detached, failures, starts>>

(***************************************************************************)
(* Inbound messages: the messages.upsert handler and                       *)
(* handleIncomingMessage, cut at their awaits.                             *)
(*                                                                         *)
(* A message is its key.id (NoId when absent), key.fromMe, whether key,    *)
(* message and remoteJid are all present (complete), its remoteJid and the *)
(* text of its first populated content field.  Inbound ids are positive    *)
(* numbers; the id the socket gives the n-th reply sent is SentId(n).      *)
(***************************************************************************)
NoId == 0

SentId(n) == 0 - n

\* an address `user@server`; a sender number is an address without server
Jid(user, server) == [user |-> user, server |-> server]

\* the account the session is logged in as, and the device part of its
\* `socket.user.id` ("9:5@s.whatsapp.net")
OwnUser == 9
OwnDevice == 5
NoUser == [user |-> 0, device |-> 0, server |-> ""]
OwnId == [user |-> OwnUser, device |-> OwnDevice, server |-> "s.whatsapp.net"]

Msg(id, fromMe, complete, jid, text) ==
    [id |-> id, fromMe |-> fromMe, complete |-> complete, jid |-> jid,
     text |-> text]

\* a text message of a sender the session answers
TextMsg(id) == Msg(id, FALSE, TRUE, Jid(1, "s.whatsapp.net"), <<"h", "i">>)

\* the session's n-th reply as the backend delivers it back
EchoMsg(n) ==
    Msg(SentId(n), TRUE, TRUE, Jid(1, "s.whatsapp.net"), <<"o", "k">>)

\* the configuration of a session (interface WhatsAppChannelConfig)
Config(directOnly, allowed) ==
    [replyOnlyToDirectMessages |-> directOnly, allowedSenders |-> allowed]

\* `isJidUser(jid) || jid.endsWith('@lid')`
IsDirectMessage(jid) == jid.server = "s.whatsapp.net" \/ jid.server = "lid"

\* `jid.replace(/@(s\.whatsapp\.net|lid)$/, '')`
SenderNumber(jid) ==
    IF jid.server \in {"s.whatsapp.net", "lid"} THEN Jid(jid.user, "") ELSE jid

\* (variant: the allow-list is not consulted)
PassesAnySender(cfg, jid) ==
    cfg.replyOnlyToDirectMessages => IsDirectMessage(jid)

\* the two configured filters: direct messages only, allowed senders
Passes(cfg, jid) ==
    /\ cfg.replyOnlyToDirectMessages => IsDirectMessage(jid)
    /\ cfg.allowedSenders # {} => SenderNumber(jid) \in cfg.allowedSenders

\* `if (!text.trim()) return`
HasText(text) == Trim(text) # <<>>

\* `this.socket.user.id.replace(/:.*@/, '@')`
WithoutDevice(id) == Jid(id.user, id.server)

\* "LID JIDs can't receive messages; resolve to phone number JID"
ReplyJid(jid, user) ==
    IF jid.server = "lid" /\ user # NoUser THEN WithoutDevice(user) ELSE jid

\* a call of the socket made for the message in hand; ok is FALSE once
\* the call has rejected
Signal(kind, to) == [kind |-> kind, to |-> to, ok |-> TRUE]

\* the call made last has rejected
Rejected(sigs) == [sigs EXCEPT ![Len(sigs)].ok = FALSE]

\* Set.has on a Set kept in insertion order
Has(set, id) == \E i \in 1..Len(set) : set[i] = id

\* Set.add
Add(set, id) == IF Has(set, id) THEN set ELSE Append(set, id)

\* Set.delete
Remove(set, id) == SelectSeq(set, LAMBDA x : x # id)

\* "Limit dedup set size": above 1000 ids the first 500 of Array.from(set)
\* are deleted
Limit(set) ==
    IF Len(set) > PROCESSED_LIMIT
    THEN SubSeq(set, EVICT_COUNT + 1, Len(set)) ELSE set

\* `msg.key.fromMe && msg.key.id && this.botSentMessages.has(msg.key.id)`
IsBotEcho(m) == m.fromMe /\ m.id # NoId /\ Has(botSentMessages, m.id)

\* handleIncomingMessage returns, or its rejection ends the for-of loop:
\* the upsert handler has `rest` left
Resume(h, rest) ==
    /\ batch' = [batch EXCEPT ![h] = rest]
    /\ hpc' = [hpc EXCEPT ![h] = IF rest = <<>> THEN "idle" ELSE "next"]

\* `const response = await this.handler(incoming)` is called
Invoke(h, m) ==
    /\ hpc' = [hpc EXCEPT ![h] = "handler"]
    /\ invoked' = Append(invoked, m.id)

\* the catch block: `if (this.socket) await sendPresenceUpdate('paused')`;
\* `sigs` are the calls the step made before
Catch(h, sigs) ==
    IF socket # "null"
    THEN /\ hpc' = [hpc EXCEPT ![h] = "caught"]
         /\ signals' = [signals EXCEPT ![h] =
                           sigs \o <<Signal("paused", batch[h][1].jid)>>]
         /\ UNCHANGED batch
    ELSE /\ Resume(h, Tail(batch[h]))
         /\ signals' = [signals EXCEPT ![h] = sigs]

\* handleIncomingMessage(m) up to its first await or its return, in the
\* upsert handler h whose batch has `rest` after m
HandleIncomingMessage(h, m, rest) ==
    IF ~m.complete
    THEN /\ Resume(h, rest)
         /\ signals' = [signals EXCEPT ![h] = <<>>]
         /\ UNCHANGED <<processedMessages, botSentMessages, invoked>>
    ELSE IF IsBotEcho(m)
    THEN /\ botSentMessages' = Remove(botSentMessages, m.id)
         /\ Resume(h, rest)
         /\ signals' = [signals EXCEPT ![h] = <<>>]
         /\ UNCHANGED <<processedMessages, invoked>>
    ELSE IF m.id = NoId \/ Has(processedMessages, m.id)
    THEN /\ Resume(h, rest)
         /\ signals' = [signals EXCEPT ![h] = <<>>]
         /\ UNCHANGED <<processedMessages, botSentMessages, invoked>>
    ELSE /\ processedMessages' = Limit(Add(processedMessages, m.id))
         /\ UNCHANGED botSentMessages
         /\ IF ~Passes(config, m.jid) \/ ~HasText(m.text) \/ ~handler
            THEN /\ Resume(h, rest)
                 /\ signals' = [signals EXCEPT ![h] = <<>>]
                 /\ UNCHANGED invoked
            ELSE /\ batch' = [batch EXCEPT ![h] = <<m>> \o rest]
                 /\ IF socket # "null"
                    THEN /\ hpc' = [hpc EXCEPT ![h] = "subscribe"]
                         /\ signals' = [signals EXCEPT ![h] =
                                           <<Signal("subscribe", m.jid)>>]
                         /\ UNCHANGED invoked
                    ELSE /\ Invoke(h, m)
                         /\ signals' = [signals EXCEPT ![h] = <<>>]

\* a messages.upsert event with the messages msgs: the handler runs up to
\* the first await in the handling of the first message
Upsert(h, msgs) ==
    /\ hpc[h] = "idle"
    /\ msgs # <<>>
    /\ socket = "open" \/ detached.open > 0
    /\ HandleIncomingMessage(h, Head(msgs), Tail(msgs))
    /\ lastEvent' = Event("deliver", h, Head(msgs).id, "")
    /\ UNCHANGED <<config, reply, messageStore, replies>>

\* the for-of loop of the upsert handler goes on to the next message
NextMessage(h) ==
    /\ hpc[h] = "next"
    /\ HandleIncomingMessage(h, Head(batch[h]), Tail(batch[h]))
    /\ lastEvent' = Event("deliver", h, Head(batch[h]).id, "")
    /\ UNCHANGED <<config, reply, messageStore, replies>>

\* presenceSubscribe settles; sendPresenceUpdate('composing') is called on
\* `this.socket`, which throws when stop() has set it to null meanwhile
SubscribeDone(h, ok) ==
    /\ hpc[h] = "subscribe"
    /\ IF ~ok THEN Catch(h, Rejected(signals[h]))
       ELSE IF socket # "null"
            THEN /\ hpc' = [hpc EXCEPT ![h] = "typing"]
                 /\ signals' = [signals EXCEPT ![h] =
                        Append(@, Signal("composing", batch[h][1].jid))]
                 /\ UNCHANGED batch
            ELSE Catch(h, signals[h])
    /\ lastEvent' = Event("subscribed", h, batch[h][1].id, "")
    /\ UNCHANGED <<config, reply, processedMessages, botSentMessages,
                   messageStore, replies, invoked>>

\* sendPresenceUpdate('composing') settles
TypingDone(h, ok) ==
    /\ hpc[h] = "typing"
    /\ IF ok THEN Invoke(h, batch[h][1]) /\ UNCHANGED <<batch, signals>>
       ELSE Catch(h, Rejected(signals[h])) /\ UNCHANGED invoked
    /\ lastEvent' = Event("typing", h, batch[h][1].id, "")
    /\ UNCHANGED <<config, reply, processedMessages, botSentMessages,
                   messageStore, replies>>

\* what the handler's promise does: it resolves with a reply, resolves with
\* the empty string, or rejects
HandlerOutcomes == {"reply", "empty", "throw"}

\* the handler settles; "Clear typing indicator"
HandlerDone(h, outcome) ==
    /\ hpc[h] = "handler"
    /\ reply' = [reply EXCEPT ![h] = outcome = "reply"]
    /\ IF outcome = "throw" THEN Catch(h, signals[h])
       ELSE IF socket # "null"
            THEN /\ hpc' = [hpc EXCEPT ![h] = "paused"]
                 /\ signals' = [signals EXCEPT ![h] =
                                   Append(@, Signal("paused", batch[h][1].jid))]
                 /\ UNCHANGED batch
            ELSE Resume(h, Tail(batch[h])) /\ UNCHANGED signals
    /\ lastEvent' = Event("handled", h, batch[h][1].id, outcome)
    /\ UNCHANGED <<config, processedMessages, botSentMessages, messageStore,
                   replies, invoked>>

\* sendPresenceUpdate('paused') settles; `if (response && this.socket)` the
\* reply is handed to sendMessage, addressed with the `socket.user` of the
\* moment
PausedDone(h, ok) ==
    /\ hpc[h] = "paused"
    /\ IF ~ok THEN Catch(h, Rejected(signals[h]))
       ELSE IF reply[h] /\ socket # "null"
            THEN /\ hpc' = [hpc EXCEPT ![h] = "send"]
                 /\ \E user \in {NoUser, OwnId} :
                        signals' = [signals EXCEPT ![h] =
                            Append(@, Signal("message",
                                             ReplyJid(batch[h][1].jid, user)))]
                 /\ UNCHANGED batch
            ELSE Resume(h, Tail(batch[h])) /\ UNCHANGED signals
    /\ lastEvent' = Event("paused", h, batch[h][1].id, "")
    /\ UNCHANGED <<config, reply, processedMessages, botSentMessages,
                   messageStore, replies, invoked>>

\* sendMessage settles: with the sent message and its id ("id"), with none
\* ("none"), or it rejects ("throw")
SendDone(h, outcome) ==
    /\ hpc[h] = "send"
    /\ IF outcome = "id"
       THEN /\ replies' = replies + 1
            /\ botSentMessages' = Add(botSentMessages, SentId(replies + 1))
            /\ messageStore' = messageStore \cup {SentId(replies + 1)}
            /\ Resume(h, Tail(batch[h]))
            /\ UNCHANGED signals
       ELSE /\ IF outcome = "none"
               THEN Resume(h, Tail(batch[h])) /\ UNCHANGED signals
               ELSE Catch(h, Rejected(signals[h]))
            /\ UNCHANGED <<replies, botSentMessages, messageStore>>
    /\ lastEvent' = Event("sent", h, batch[h][1].id, outcome)
    /\ UNCHANGED <<config, reply, processedMessages, invoked>>

\* sendPresenceUpdate('paused') of the catch block settles; its rejection
\* leaves handleIncomingMessage and ends the upsert handler
CaughtDone(h, ok) ==
    /\ hpc[h] = "caught"
    /\ Resume(h, IF ok THEN Tail(batch[h]) ELSE <<>>)
    /\ signals' = [signals EXCEPT ![h] = IF ok THEN @ ELSE Rejected(@)]
    /\ lastEvent' = Event("caught", h, batch[h][1].id, "")
    /\ UNCHANGED <<config, reply, processedMessages, botSentMessages,
                   messageStore, replies, invoked>>

\* "Clean up store after 5 minutes": the timer set with the entry fires
Expire(id) ==
    /\ id \in messageStore
    /\ messageStore' = messageStore \ {id}
    /\ lastEvent' = Event("expire", 0, id, "")
    /\ UNCHANGED <<config, reply, signals, processedMessages,
                   botSentMessages, hpc, batch, replies, invoked>>

(***************************************************************************)
(* ChannelSpec: one session through starts, stops, opens, closes and       *)
(* reconnect timers, with inbound messages handled meanwhile.              *)
(***************************************************************************)
\* what a step of the connection life cycle, and what a step of the
\* message handling, leaves alone
ConnFrame ==
    UNCHANGED <<agentVars, histVars, toolVars, mgrVars, auxVars, msgVars, deliveries, inbound, replies,
                invoked>>
MsgFrame ==
    UNCHANGED <<agentVars, histVars, toolVars, mgrVars, auxVars, connVars, failures, starts, deliveries,
                inbound>>

Sources == {"current", "connecting", "open", "ended"}

\* the backend delivers a batch to the upsert handler h
Deliver(h, msgs) ==
    /\ Upsert(h, msgs)
    /\ deliveries' = deliveries + Len(msgs)
    /\ inbound' = CHOOSE n \in {inbound} \cup {msgs[i].id : i \in 1..Len(msgs)} :
                      /\ n >= inbound
                      /\ \A i \in 1..Len(msgs) : n >= msgs[i].id
    /\ UNCHANGED <<agentVars, histVars, toolVars, mgrVars, auxVars, connVars, failures, starts>>

FirstHandler == CHOOSE h \in Handlers : \A g \in Handlers : h <= g

\* the messages of the session's life cycle are fresh text messages, handled
\* by one upsert handler at a time, and each await settles well
ChannelNext ==
    \/ starts < MaxStarts /\ Start /\ ConnFrame
    \/ Stop /\ ConnFrame
    \/ ConnectDone /\ ConnFrame
    \/ ConnectFail /\ ConnFrame
    \/ \E current \in BOOLEAN : ConnectionOpen(current) /\ ConnFrame
    \/ \E from \in Sources, reason \in Reasons :
           ConnectionClose(from, reason) /\ ConnFrame
    \/ \E i \in 1..Len(timers) : TimerFire(i) /\ ConnFrame
    \/ /\ deliveries < MaxDeliveries
       /\ Deliver(FirstHandler, <<TextMsg(inbound + 1)>>)
    \/ SubscribeDone(FirstHandler, TRUE) /\ MsgFrame
    \/ TypingDone(FirstHandler, TRUE) /\ MsgFrame
    \/ HandlerDone(FirstHandler, "reply") /\ MsgFrame
    \/ PausedDone(FirstHandler, TRUE) /\ MsgFrame
    \/ SendDone(FirstHandler, "id") /\ MsgFrame
    \/ \E id \in messageStore : Expire(id) /\ MsgFrame

ChannelSpec == Init /\ [][ChannelNext]_vars

(***************************************************************************)
(* MsgSpec: the message handling of a session that is started once and     *)
(* stays open until it is stopped.  The backend delivers batches of one or *)
(* two messages, to two upsert handlers that may be in flight together:    *)
(* text messages, also redelivered ones, echoes of the replies sent so     *)
(* far, and messages that an early return drops.  Every await may reject.  *)
(***************************************************************************)
MsgIds == {1, 2}

\* messages that handleIncomingMessage drops: incomplete, without id,
\* filtered, without text; and a message the user wrote to themselves
OddMsgs ==
    { Msg(1, FALSE, FALSE, Jid(1, "s.whatsapp.net"), <<"h", "i">>),
      Msg(NoId, FALSE, TRUE, Jid(1, "s.whatsapp.net"), <<"h", "i">>),
      Msg(2, FALSE, TRUE, Jid(2, "s.whatsapp.net"), <<"h", "i">>),
      Msg(2, FALSE, TRUE, Jid(1, "s.whatsapp.net"), <<" ">>),
      Msg(2, TRUE, TRUE, Jid(1, "s.whatsapp.net"), <<"h", "i">>) }

Inbox ==
    {TextMsg(i) : i \in MsgIds} \cup {EchoMsg(n) : n \in 1..replies}
    \cup OddMsgs

Batches == {<<a>> : a \in Inbox} \cup {<<a, b>> : a \in Inbox, b \in Inbox}

MsgNext ==
    \/ starts = 0 /\ Start /\ ConnFrame
    \/ Stop /\ ConnFrame
    \/ ConnectDone /\ ConnFrame
    \/ ConnectionOpen(TRUE) /\ ConnFrame
    \/ \E h \in Handlers, msgs \in Batches :
           /\ deliveries + Len(msgs) <= MaxMsgDeliveries
           /\ Deliver(h, msgs)
    \/ \E h \in Handlers : NextMessage(h) /\ MsgFrame
    \/ \E h \in Handlers, ok \in BOOLEAN : SubscribeDone(h, ok) /\ MsgFrame
    \/ \E h \in Handlers, ok \in BOOLEAN : TypingDone(h, ok) /\ MsgFrame
    \/ \E h \in Handlers, outcome \in {"reply", "throw"} :
           HandlerDone(h, outcome) /\ MsgFrame
    \/ \E h \in Handlers, ok \in BOOLEAN : PausedDone(h, ok) /\ MsgFrame
    \/ \E h \in Handlers, outcome \in {"id", "none", "throw"} :
           SendDone(h, outcome) /\ MsgFrame
    \/ \E h \in Handlers, ok \in BOOLEAN : CaughtDone(h, ok) /\ MsgFrame
    \/ \E id \in messageStore : Expire(id) /\ MsgFrame

MsgSpec == Init /\ [][MsgNext]_vars

(***************************************************************************)
(* EchoSpec: the backend delivers the echo of a reply as soon as the       *)
(* session has handed the reply to sendMessage, also before sendMessage    *)
(* has settled.  The session is started once and stays open; text messages *)
(* come to the first upsert handler, echoes to any; each echo is delivered *)
(* while its send is in flight, and every await settles well.              *)
(***************************************************************************)
\* a sendMessage has been issued and has not settled
Sending == \E h \in Handlers : hpc[h] = "send"

EchoNext ==
    \/ starts = 0 /\ Start /\ ConnFrame
    \/ ConnectDone /\ ConnFrame
    \/ ConnectionOpen(TRUE) /\ ConnFrame
    \/ /\ deliveries < MaxEchoDeliveries
       /\ inbound = 0
       /\ Deliver(FirstHandler, <<TextMsg(1)>>)
    \/ \E h \in Handlers :
          /\ deliveries < MaxEchoDeliveries
          /\ Sending
          /\ Deliver(h, <<EchoMsg(replies + 1)>>)
    \/ \E h \in Handlers : SubscribeDone(h, TRUE) /\ MsgFrame
    \/ \E h \in Handlers : TypingDone(h, TRUE) /\ MsgFrame
    \/ \E h \in Handlers : HandlerDone(h, "reply") /\ MsgFrame
    \/ \E h \in Handlers : PausedDone(h, TRUE) /\ MsgFrame
    \/ \E h \in Handlers : SendDone(h, "id") /\ MsgFrame
    \/ \E id \in messageStore : Expire(id) /\ MsgFrame

EchoSpec == Init /\ [][EchoNext]_vars

(***************************************************************************)
(* LongSpec: a long-lived session.  It is started once and stays open; the *)
(* backend delivers MaxInbound text messages one after the other, each     *)
(* with a new id and each after the store entry of the reply before has    *)
(* expired; the session answers every one, and no echo of a reply comes    *)
(* back.  After the first message and after the last one the backend may   *)
(* deliver the first message again.                                        *)
(***************************************************************************)
RedeliveryPoints == {1, MaxInbound}

LongNext ==
    \/ starts = 0 /\ Start /\ ConnFrame
    \/ ConnectDone /\ ConnFrame
    \/ ConnectionOpen(TRUE) /\ ConnFrame
    \/ /\ inbound < MaxInbound
       /\ messageStore = {}
       /\ Deliver(FirstHandler, <<TextMsg(inbound + 1)>>)
    \/ /\ inbound \in RedeliveryPoints
       /\ deliveries < inbound + MaxRedeliveries
       /\ messageStore = {}
       /\ Deliver(FirstHandler, <<TextMsg(1)>>)
    \/ SubscribeDone(FirstHandler, TRUE) /\ MsgFrame
    \/ TypingDone(FirstHandler, TRUE) /\ MsgFrame
    \/ HandlerDone(FirstHandler, "reply") /\ MsgFrame
    \/ PausedDone(FirstHandler, TRUE) /\ MsgFrame
    \/ SendDone(FirstHandler, "id") /\ MsgFrame
    \/ \E id \in messageStore : Expire(id) /\ MsgFrame

LongSpec == Init /\ [][LongNext]_vars

(***************************************************************************)
(* ReplySpec: what one upsert handler does with an inbound message, for    *)
(* every configuration of the two filters.  The session is started once,   *)
(* opens and may be stopped; the backend delivers batches of one or two    *)
(* new messages: from an allowed sender, from another sender, from senders *)
(* with a LID address (another user, and the account itself), from a       *)
(* group, without text, with blank text, and without key, content or       *)
(* address.  Every await may reject, and the handler may return nothing.   *)
(***************************************************************************)
Configs ==
    { Config(d, a) : d \in BOOLEAN,
                     a \in {{}, {Jid(1, "")}, {Jid(1, ""), Jid(101, "")}} }

\* a message as the backend hands it over, before it has its id
ReplyInbox ==
    { Msg(NoId, FALSE, TRUE, Jid(1, "s.whatsapp.net"), <<"h", "i">>),
      Msg(NoId, FALSE, TRUE, Jid(2, "s.whatsapp.net"), <<"h", "i">>),
      Msg(NoId, FALSE, TRUE, Jid(101, "lid"), <<"h", "i">>),
      Msg(NoId, TRUE, TRUE, Jid(100 + OwnUser, "lid"), <<"h", "i">>),
      Msg(NoId, FALSE, TRUE, Jid(7, "g.us"), <<"h", "i">>),
      Msg(NoId, FALSE, TRUE, Jid(1, "s.whatsapp.net"), <<>>),
      Msg(NoId, FALSE, TRUE, Jid(1, "s.whatsapp.net"), <<" ", "\t">>),
      Msg(NoId, FALSE, FALSE, Jid(1, "s.whatsapp.net"), <<"h", "i">>) }

WithId(m, id) == [m EXCEPT !.id = id]

ReplyBatches ==
    {<<WithId(a, inbound + 1)>> : a \in ReplyInbox}
    \cup {<<WithId(a, inbound + 1), WithId(b, inbound + 2)>> :
              a \in ReplyInbox, b \in ReplyInbox}

ReplyInit ==
    /\ AgentInit
    /\ ChannelInit
    /\ config \in Configs
    /\ ToolsIdle
    /\ toolsConfig = DefaultTools
    /\ MgrIdle
    /\ MemoryEmpty
    /\ BrowserIdle
    /\ autoStart = [n \in Names |-> "absent"]

ReplyNext ==
    \/ starts = 0 /\ Start /\ ConnFrame
    \/ Stop /\ ConnFrame
    \/ ConnectDone /\ ConnFrame
    \/ ConnectionOpen(TRUE) /\ ConnFrame
    \/ \E msgs \in ReplyBatches :
           /\ deliveries + Len(msgs) <= MaxReplyDeliveries
           /\ Deliver(FirstHandler, msgs)
    \/ NextMessage(FirstHandler) /\ MsgFrame
    \/ \E ok \in BOOLEAN : SubscribeDone(FirstHandler, ok) /\ MsgFrame
    \/ \E ok \in BOOLEAN : TypingDone(FirstHandler, ok) /\ MsgFrame
    \/ \E outcome \in HandlerOutcomes :
           HandlerDone(FirstHandler, outcome) /\ MsgFrame
    \/ \E ok \in BOOLEAN : PausedDone(FirstHandler, ok) /\ MsgFrame
    \/ \E outcome \in {"id", "none", "throw"} :
           SendDone(FirstHandler, outcome) /\ MsgFrame
    \/ \E ok \in BOOLEAN : CaughtDone(FirstHandler, ok) /\ MsgFrame
    \/ \E id \in messageStore : Expire(id) /\ MsgFrame

ReplySpec == ReplyInit /\ [][ReplyNext]_vars

(***************************************************************************)
(* The tools alone: any configuration, and calls of executeTool by any     *)
(* name with any of a few argument maps, made by the loop of Agent.chat    *)
(* from an arguments text or by another caller with a map.                 *)
(***************************************************************************)
ToolNames ==
    {"bash", "read_file", "write_file", "list_directory", "browse",
     "claude_code"}

\* a name that is no case of the switch
UnknownTool == "search"

Ls == <<"ls">>
Rm == <<"rm">>

Commands ==
    {Ls, Rm, <<>>, <<"ls", " ", "rm">>, <<" ", "rm">>,
     <<"\t", "rm", " ", "ls">>, <<"rm", "\t", "-rf">>}

CommandLists == {{}, {Ls}, {Rm}, {Ls, Rm}}

ToolsConfigs ==
    {ToolsConfig(BashConfig(e, a, d), TRUE, TRUE, "enabled", TRUE) :
        e \in BOOLEAN, a \in CommandLists, d \in CommandLists}
    \cup {ToolsConfig(BashConfig(e, {}, {}), f, b, c, k) :
            e \in BOOLEAN, f \in BOOLEAN, b \in BOOLEAN,
            c \in {"absent", "disabled", "enabled"}, k \in BOOLEAN}

\* what a field may hold: nothing, a string, a number
Fillers == {Undefined, String(<<"a">>), Value("number", <<"42">>)}

ArgMaps ==
    {Object([NoFields EXCEPT !["command"] = c]) :
        c \in {String(s) : s \in Commands} \cup Fillers}
    \cup {Object([NoFields EXCEPT !["path"] = p, !["content"] = c]) :
            p \in Fillers \cup {String(<<>>)}, c \in Fillers}
    \cup {Object([NoFields EXCEPT !["url"] = u]) : u \in Fillers}
    \cup {Object([NoFields EXCEPT !["prompt"] = p, !["workdir"] = w]) :
            p \in Fillers, w \in {Undefined, String(<<"a">>)}}

\* what a caller can pass where a map is expected
Arguments == ArgMaps \cup {NonObject("null"), NonObject("undefined")}

Member(name, tok) == <<Tok("str", <<name>>), Punct(":"), tok>>
Braces(toks) == <<Punct("{")>> \o toks \o <<Punct("}")>>

\* arguments texts: objects, JSON that is no object, and what is no JSON
ArgumentTexts ==
    {Braces(Member("command", Tok("str", Ls))),
     Braces(Member("command", Tok("str", Rm))),
     Braces(Member("command", Tok("num", <<"42">>))),
     Braces(Member("path", Tok("str", <<"a">>)) \o <<Punct(",")>>
            \o Member("content", Tok("str", <<"b">>))),
     Braces(Member("url", Tok("str", <<"a">>))),
     Braces(Member("prompt", Tok("str", <<"a">>))),
     Braces(<<>>),
     <<Tok("null", <<"null">>)>>,
     <<Tok("num", <<"42">>)>>,
     <<Tok("str", Ls)>>,
     <<Punct("["), Punct("]")>>,
     <<Tok("word", <<"ls", " ", "-la">>)>>,
     <<Punct("{")>> \o Member("command", Tok("str", Ls))}

\* what `exec` can call back with
ExecOutcomes ==
    {BashResult(Raw("stdout", 12), <<>>, 0, FALSE),
     BashResult(<<>>, Raw("stderr", 12), 1, FALSE),
     BashResult(<<>>, <<>>, 1, FALSE),
     BashResult(Raw("stdout", 12), <<>>, 1, TRUE)}

ExitCodes == {0, 1, 2, 255, NoCode}

SshEvents ==
    {SshEvent("close", code, t) : code \in ExitCodes, t \in BOOLEAN}
    \cup {SshEvent("error", NoCode, FALSE)}

ToolInit ==
    /\ AgentInit
    /\ ChannelInit
    /\ config = DefaultConfig
    /\ ToolsIdle
    /\ toolsConfig \in ToolsConfigs
    /\ MgrIdle
    /\ MemoryEmpty
    /\ BrowserIdle
    /\ autoStart = [n \in Names |-> "absent"]

ToolFrame == UNCHANGED <<agentVars, histVars, chanVars, mgrVars, auxVars>>

ToolNext ==
    \/ \E name \in ToolNames \cup {UnknownTool}, args \in Arguments,
          ok \in BOOLEAN :
          Begin("", name, args, TRUE, ok) /\ ToolFrame
    \/ \E name \in ToolNames \cup {UnknownTool}, text \in ArgumentTexts,
          ok \in BOOLEAN :
          CallTool(ToolCall("c1", name, text), ok) /\ ToolFrame
    \/ \E r \in ExecOutcomes : ExecDone(r) /\ ToolFrame
    \/ \E ok \in BOOLEAN : BrowseDone(ok) /\ ToolFrame
    \/ \E event \in SshEvents : SshDone(event) /\ ToolFrame
    \/ RecordResult /\ ToolFrame
    \/ Forget /\ ToolFrame

ToolSpec == ToolInit /\ [][ToolNext]_vars

(***************************************************************************)
(* MgrSpec: the manager with two sessions under any autoStart settings;    *)
(* its operations are called in any order, by registered names and by a    *)
(* name that is not registered.                                            *)
(***************************************************************************)
MgrInit ==
    /\ AgentInit
    /\ ChannelInit
    /\ config = DefaultConfig
    /\ ToolsIdle
    /\ toolsConfig = DefaultTools
    /\ MgrIdle
    /\ MemoryEmpty
    /\ BrowserIdle
    /\ autoStart \in [Names -> AutoStarts]

MgrFrame == UNCHANGED <<agentVars, histVars, chanVars, toolVars, auxVars>>

MgrNext ==
    \/ SetHandler /\ MgrFrame
    \/ StartAll /\ MgrFrame
    \/ \E name \in Names \cup {UnknownName} : StartChannel(name) /\ MgrFrame
    \/ \E ok \in BOOLEAN : StartSettles(ok) /\ MgrFrame
    \/ \E name \in Names \cup {UnknownName}, throws \in BOOLEAN :
          StopChannel(name, throws) /\ MgrFrame
    \/ \E throwing \in SUBSET Names : StopAll(throwing) /\ MgrFrame
    \/ \E name \in Names : SessionOpen(name) /\ MgrFrame

MgrSpec == MgrInit /\ [][MgrNext]_vars

(***************************************************************************)
(* Properties of the orchestration loop.                                   *)
(***************************************************************************)
Roles(h) == [i \in 1..Len(h) |-> h[i].role]

\* what a message is, apart from its text
Shape(m) == <<m.role, m.tool_calls, m.tool_call_id>>
Shapes(h) == [i \in 1..Len(h) |-> Shape(h[i])]

IsPrefix(a, b) == Len(a) <= Len(b) /\ SubSeq(b, 1, Len(a)) = a

From(h, n) == SubSeq(h, n + 1, Len(h))

\* the step taken last let the invocation of caller p return
JustReturned(p) ==
    /\ lastOp.proc = p
    /\ lastOp.op \in {"LLMFinal", "LLMFail", "ToolDone"}
    /\ pc[p] = "idle"

\* the messages one tool round with the calls `calls` leaves
RECURSIVE ToolShapes(_)
ToolShapes(calls) ==
    IF calls = <<>> THEN <<>>
    ELSE <<(<<"tool", NoCalls, Head(calls).id>>)>> \o ToolShapes(Tail(calls))

RECURSIVE RoundShapes(_)
RoundShapes(rs) ==
    IF rs = <<>> THEN <<>>
    ELSE <<(<<"assistant", Head(rs), NoCallId>>)>> \o ToolShapes(Head(rs))
         \o RoundShapes(Tail(rs))

RECURSIVE CallCount(_)
CallCount(rs) == IF rs = <<>> THEN 0 ELSE Len(Head(rs)) + CallCount(Tail(rs))

\* what an invocation that began on history b, ran the tool rounds rs and
\* ended with a final reply (or not) has appended
ExpectedShapes(b, rs, final) ==
    (IF b = <<>> THEN <<(<<"system", NoCalls, NoCallId>>)>> ELSE <<>>)
    \o <<(<<"user", NoCalls, NoCallId>>)>>
    \o RoundShapes(rs)
    \o (IF final THEN <<(<<"assistant", NoCalls, NoCallId>>)>> ELSE <<>>)

\* C1: an invocation of chat sends at most 10 LLM requests; when each of 10
\* responses carried tool calls, there is no 11th request and chat returns
\* the fixed maximum-iterations text.
C1_AtMostTenRequests ==
    \A p \in Procs :
        /\ requests[p] <= 10
        /\ (Len(rounds[p]) = 10 /\ pc[p] # "tool") =>
               /\ pc[p] = "idle"
               /\ requests[p] = 10
               /\ ret[p] = Returned(MaxIterationsText)

C1_Witness ==
    \E p \in Procs :
        /\ Len(rounds[p]) = 10
        /\ pc[p] = "idle"
        /\ ret[p] = Returned(MaxIterationsText)

\* the tool messages among the messages h
ToolMessages(h) == SelectSeq(h, LAMBDA m : m.role = "tool")

\* the last k messages of h are the assistant message listing `calls` and
\* the results of the first k - 1 of these calls, in the order listed
RoundSoFar(h, calls, k) ==
    /\ 1 <= k /\ k <= Len(calls) + 1 /\ k <= Len(h)
    /\ Shape(h[Len(h) - k + 1]) = <<"assistant", calls, NoCallId>>
    /\ \A j \in 1..(k - 1) :
           Shape(h[Len(h) - k + 1 + j]) = <<"tool", NoCalls, calls[j].id>>

\* C2: within one response carrying the calls c1..ck, tool c(i+1) is started
\* only after the result of c(i) has been appended, the tool messages are in
\* the history with the tool_call_ids in the order c1..ck, and the next LLM
\* request is issued only after all k results have been appended.
C2_ToolCallsInOrder ==
    \A p \in Procs :
        LET h == heap[messages[p]]
            calls == response[p].tool_calls
        IN /\ pc[p] = "tool" =>
                  /\ RoundSoFar(h, calls, callIdx[p])
                  /\ Len(ToolMessages(appended[p])) = toolRuns[p] - 1
           /\ (pc[p] = "llm" /\ requests[p] > 1) =>
                  /\ RoundSoFar(h, calls, Len(calls) + 1)
                  /\ Len(ToolMessages(appended[p])) = toolRuns[p]

C2_Witness ==
    \E p \in Procs :
        /\ pc[p] = "llm"
        /\ requests[p] > 1
        /\ response[p].tool_calls = <<Call2, Call1>>
        /\ toolRuns[p] = 2

WellFormed(h) ==
    /\ \A i \in 1..Len(h) :
           h[i].role = "tool" =>
               \E a \in 1..(i - 1) :
                   /\ h[a].role = "assistant"
                   /\ \A j \in (a + 1)..i : h[j].role = "tool"
                   /\ \E c \in 1..Len(h[a].tool_calls) :
                          h[a].tool_calls[c].id = h[i].tool_call_id
    /\ \A a \in 1..Len(h) :
           (h[a].role = "assistant" /\ h[a].tool_calls # NoCalls) =>
               LET k == Len(h[a].tool_calls)
               IN /\ a + k <= Len(h)
                  /\ \A j \in 1..k :
                         /\ h[a + j].role = "tool"
                         /\ h[a + j].tool_call_id = h[a].tool_calls[j].id
                  /\ a + k < Len(h) => h[a + k + 1].role # "tool"

\* C3: after any sequence of non-overlapping chat and clearConversation
\* operations, in every stored history each tool message follows (with only
\* tool messages of the same round in between) an assistant message whose
\* tool_calls contain its tool_call_id, and each assistant tool-call message
\* is followed by exactly one tool message per call it lists.
C3_ToolMessagesAnchored ==
    Quiet => \A id \in ConvIds : WellFormed(Stored(id))

C3_Witness ==
    /\ Quiet
    /\ \E id \in ConvIds :
           \E i \in 1..Len(Stored(id)) : Len(Stored(id)[i].tool_calls) = 2

\* C4: without an intervening clear, the history before an invocation is a
\* prefix of the history after it, and an invocation that runs k tool rounds
\* with n_1..n_k calls and then gets a final reply grows the history by
\* exactly 1 user message, then per round 1 assistant and n_i tool messages,
\* then 1 assistant message (after 1 system message when the conversation is
\* new), in that order.
C4_HistoryGrowth ==
    \A p \in Procs :
        JustReturned(p) =>
            LET h == Stored(convId[p])
                b == before[p]
            IN /\ IsPrefix(b, h)
               /\ lastOp.op = "LLMFinal" =>
                      /\ Shapes(From(h, Len(b)))
                             = ExpectedShapes(b, rounds[p], TRUE)
                      /\ Len(h) = Len(b) + (IF b = <<>> THEN 1 ELSE 0) + 1
                                  + Len(rounds[p]) + CallCount(rounds[p]) + 1

C4_Witness ==
    \E p \in Procs :
        /\ JustReturned(p)
        /\ lastOp.op = "LLMFinal"
        /\ before[p] # <<>>
        /\ \E i \in 1..Len(rounds[p]) : Len(rounds[p][i]) = 2

\* C5: when an LLM call fails in any iteration, chat does not raise: it
\* returns a failure text as the reply of the turn, and the invocation sends
\* no further LLM request and runs no further tool.
C5_LLMFailureEndsTurn ==
    \A p \in Procs :
        (lastOp.op = "LLMFail" /\ lastOp.proc = p) =>
            /\ pc[p] = "idle"
            /\ ret[p].kind = "returned"
            /\ IsPrefix(Str("Sorry, the LLM request failed: "), ret[p].text)
            /\ From(ret[p].text, 1) = lastOp.arg
            /\ requests[p] = Len(rounds[p]) + 1
            /\ toolRuns[p] = CallCount(rounds[p])

C5_Witness ==
    \E p \in Procs :
        /\ lastOp.op = "LLMFail"
        /\ lastOp.proc = p
        /\ Len(rounds[p]) >= 2
        /\ ret[p].kind = "returned"

\* C6: on every return path of chat (final reply, LLM failure in iteration
\* k, iteration cap exhausted) the store entry of the id afterwards holds,
\* in order, every message the invocation appended before returning, also
\* when the invocation was the first one for the id.
C6_StoredOnEveryReturn ==
    \A p \in Procs :
        JustReturned(p) =>
            LET h == Stored(convId[p])
                b == before[p]
            IN /\ conversations[convId[p]] # NoRef
               /\ IsPrefix(b, h)
               /\ From(h, Len(b)) = appended[p]
               /\ Shapes(appended[p])
                      = ExpectedShapes(b, rounds[p], lastOp.op = "LLMFinal")

C6_Witness ==
    \E p \in Procs :
        /\ JustReturned(p)
        /\ lastOp.op = "ToolDone"
        /\ before[p] = <<>>
        /\ Len(Stored(convId[p])) = 22

\* C7: in every stored history message 0 is the system message and no other
\* message has role system: the system message is prepended exactly when the
\* id has no stored history, never on a later turn; a first turn answered
\* with content and no tool calls leaves exactly [system, user, assistant]
\* and returns that content.
C7_OneSystemMessage ==
    /\ \A id \in ConvIds :
           conversations[id] # NoRef =>
               LET h == Stored(id)
               IN /\ Len(h) >= 1
                  /\ h[1] = SystemMessage
                  /\ \A i \in 2..Len(h) : h[i].role # "system"
    /\ \A p \in Procs :
           ( /\ JustReturned(p) /\ lastOp.op = "LLMFinal"
             /\ before[p] = <<>> /\ rounds[p] = <<>>
             /\ lastOp.arg.content # <<>> ) =>
               /\ Roles(Stored(convId[p])) = <<"system", "user", "assistant">>
               /\ ret[p] = Returned(lastOp.arg.content)
               /\ Stored(convId[p])[3].content = lastOp.arg.content

C7_Witness ==
    \E p \in Procs :
        /\ lastOp.op = "ChatStart"
        /\ lastOp.proc = p
        /\ before[p] # <<>>
        /\ before[p][Len(before[p])].role = "tool"

\* C8: every chat invocation returns a non-empty text on every path: final
\* reply (also when the LLM returns empty content and no tool calls), LLM
\* failure, tool failure and cap exhaustion.
C8_ReplyNeverEmpty ==
    \A p \in Procs :
        /\ ret[p].kind # "raised"
        /\ JustReturned(p) =>
               /\ ret[p].kind = "returned"
               /\ TextLen(ret[p].text) > 0

C8_Witness ==
    \E p \in Procs :
        /\ JustReturned(p)
        /\ lastOp.op = "LLMFinal"
        /\ lastOp.arg.content = <<>>
        /\ TextLen(ret[p].text) > 0

\* C9: a tool result of length L > 4000 is recorded as its first 4000
\* characters followed by a marker stating exactly L - 4000 characters
\* omitted (retained + omitted = L); a result of length L <= 4000, also of
\* exactly 4000, is recorded unchanged.
C9_TruncationCount ==
    \A p \in Procs :
        (lastOp.op = "ToolDone" /\ lastOp.proc = p) =>
            LET result == ToolResult(lastOp.arg)
                L == TextLen(result)
                h == heap[messages[p]]
                recorded == h[Len(h)].content
                head == Substring0(recorded, 4000)
                marker == From(recorded, Len(head))
            IN IF L > 4000
               THEN /\ head = Substring0(result, 4000)
                    /\ TextLen(head) = 4000
                    /\ Len(marker) = 3
                    /\ marker[1] = Str("\n\n[...truncated, ")[1]
                    /\ marker[2].k = "num"
                    /\ marker[2].v = L - 4000
                    /\ marker[3] = Str(" chars omitted]")[1]
                    /\ TextLen(head) + marker[2].v = L
               ELSE recorded = result

C9_Witness ==
    \E p \in Procs :
        /\ lastOp.op = "ToolDone"
        /\ lastOp.proc = p
        /\ TextLen(ToolResult(lastOp.arg)) = 4001
        /\ lastOp.arg.threw

\* what the program holds for an id: the stored history and the arrays of
\* the invocations running for the id
Held(id) ==
    <<Stored(id),
      [p \in Procs |-> IF pc[p] # "idle" /\ convId[p] = id
                       THEN heap[messages[p]] ELSE <<>>]>>

\* C10: a step of a chat or clear operation on one conversation id, taken
\* at any point between the steps of operations on the other ids, changes
\* neither the stored history of another id nor the array of an invocation
\* running for another id.
C10_OtherIdsUntouched ==
    [][\A id \in ConvIds : id # lastOp'.id => Held(id)' = Held(id)]_vars

C10_Witness ==
    \E p, q \in Procs :
        /\ lastOp.op = "ToolDone"
        /\ lastOp.proc = p
        /\ lastOp.id = "A"
        /\ pc[q] = "tool"
        /\ convId[q] = "B"
        /\ Len(Held("B")[2][q]) = 3

\* in h, what follows an assistant tool-call message is, as far as h goes,
\* the results of the calls it lists, one per call and in the order listed
RoundsUnbroken(h) ==
    \A a \in 1..Len(h) :
        \A j \in 1..Len(h[a].tool_calls) :
            a + j <= Len(h) =>
                Shape(h[a + j]) = <<"tool", NoCalls, h[a].tool_calls[j].id>>

\* C11: when two chat invocations for the same already-stored conversation
\* id overlap, no message of one invocation is placed between an assistant
\* tool-call message of the other invocation and that round's tool results.
C11_OverlapKeepsRoundsUnbroken ==
    \A p, q \in Procs :
        ( /\ p # q
          /\ pc[p] # "idle" /\ pc[q] # "idle"
          /\ convId[p] = convId[q]
          /\ before[p] # <<>> /\ before[q] # <<>> ) =>
            /\ RoundsUnbroken(heap[messages[p]])
            /\ RoundsUnbroken(heap[messages[q]])

\* h is an interleaving of a and b
RECURSIVE IsMerge(_, _, _)
IsMerge(h, a, b) ==
    IF h = <<>> THEN a = <<>> /\ b = <<>>
    ELSE \/ a # <<>> /\ Head(a) = Head(h) /\ IsMerge(Tail(h), Tail(a), b)
         \/ b # <<>> /\ Head(b) = Head(h) /\ IsMerge(Tail(h), a, Tail(b))

\* C12: when two chat invocations for the same conversation id overlap,
\* also two first-turn invocations for an id without stored history, the
\* stored history after both have returned contains every message that
\* either invocation appended: it ends with an interleaving of the two
\* invocations' messages.
C12_OverlapLosesNothing ==
    \A p, q \in Procs :
        ( /\ p # q
          /\ q \in peers[p] /\ p \in peers[q]
          /\ pc[p] = "idle" /\ pc[q] = "idle"
          /\ ret[p].kind = "returned" /\ ret[q].kind = "returned" ) =>
            LET h == Stored(convId[p])
            IN \E n \in 0..Len(h) :
                   IsMerge(From(h, n), appended[p], appended[q])

(***************************************************************************)
(* Properties of the channel session.                                      *)
(***************************************************************************)

\* C13: for any inbound message id the session invokes the handler at most
\* once, however often the id is redelivered and however many other messages
\* were handled in between: the id of the latest invocation is the id of no
\* earlier invocation.
C13_InvokedAtMostOnce ==
    \A i \in 1..(Len(invoked) - 1) : invoked[i] # invoked[Len(invoked)]

\* the ids of the replies the session has sent
SentIds == {SentId(n) : n \in 1..replies}

\* the upsert handler h is past the early returns of handleIncomingMessage
\* with the message in hand
InHand(h) ==
    hpc[h] \in {"subscribe", "typing", "handler", "paused", "send", "caught"}

\* C14: an inbound message whose id is the id of a reply this session sent
\* before is dropped on every delivery, without an invocation of the handler
\* and without a reply: no upsert handler gets past the early returns with
\* such a message.
C14_EchoAlwaysDropped ==
    \A h \in Handlers :
        InHand(h) => ~(batch[h][1].fromMe /\ batch[h][1].id \in SentIds)

\* C15: after the N-th consecutive close without an intervening open
\* (N from 1 to the maximum attempt count 10), counting the closes that come
\* neither while stopping nor with the reason logged-out, the reconnect is
\* scheduled with the delay min(1000 * 2^N, 60000) ms.
C15_BackoffDelay ==
    [][(failures' = failures + 1 /\ failures' <= 10) =>
           LET N == failures'
               delay == IF 1000 * 2^N < 60000 THEN 1000 * 2^N ELSE 60000
           IN timers' = Append(timers, delay)]_vars

C15_Witness ==
    /\ lastEvent.op = "close"
    /\ failures = 10
    /\ Len(timers) = 1
    /\ timers[1] = 60000

\* C16: reconnectAttempts is set to 0 by every connection-open event and by
\* nothing else: no other step (start, stop, close, reconnect timer, connect,
\* message handling) lowers it.
C16_ResetOnlyOnOpen ==
    [][IF lastEvent'.op = "open"
       THEN reconnectAttempts' = 0
       ELSE reconnectAttempts' >= reconnectAttempts]_vars

C16_Witness ==
    /\ lastEvent.op = "open"
    /\ reconnectAttempts = 0
    /\ timers = <<4000>>
    /\ hpc[FirstHandler] = "handler"

\* no reconnect is under way and no socket can open any more
Exhausted ==
    /\ reconnectAttempts = 10
    /\ timers = <<>>
    /\ connects = 0
    /\ ~Live(socket)
    /\ detached.connecting = 0
    /\ detached.open = 0

\* C17: reconnectAttempts never exceeds 10; once it is 10, a further close
\* event schedules no reconnect and leaves the count; and when then no
\* reconnect is under way, the session is reported as disconnected and stays
\* so until start() is called.
C17_GiveUpAtMaximum ==
    [][/\ reconnectAttempts' <= 10
       /\ (lastEvent'.op = "close" /\ reconnectAttempts = 10) =>
              /\ timers' = timers
              /\ reconnectAttempts' = 10
              /\ ~connected'
       /\ Exhausted' => ~connected'
       /\ (Exhausted /\ lastEvent'.op # "start") => Exhausted']_vars

C17_Witness ==
    /\ lastEvent.op = "close"
    /\ lastEvent.reason = "connectionLost"
    /\ ~stopping
    /\ failures = 11
    /\ Exhausted
    /\ ~connected

\* C18: a close event with the reason logged-out never schedules a reconnect
\* and never increments reconnectAttempts, whatever the attempt count.
C18_LoggedOutNeverRetries ==
    [][(lastEvent'.op = "close" /\ lastEvent'.reason = "loggedOut") =>
           /\ timers' = timers
           /\ reconnectAttempts' = reconnectAttempts]_vars

C18_Witness ==
    /\ lastEvent.op = "close"
    /\ lastEvent.reason = "loggedOut"
    /\ ~stopping
    /\ reconnectAttempts = 3
    /\ timers = <<>>

\* C19: from a call of stop() until the next call of start() (`stopping` is
\* set by stop and cleared by start, and by nothing else) no close event,
\* whatever its reason and the attempt count, schedules a reconnect or
\* changes reconnectAttempts.
C19_StopSuppressesReconnect ==
    [][/\ lastEvent'.op = "stop" => stopping'
       /\ lastEvent'.op = "start" => ~stopping'
       /\ lastEvent'.op \notin {"start", "stop"} => stopping' = stopping
       /\ (stopping /\ lastEvent'.op = "close") =>
              /\ timers' = timers
              /\ reconnectAttempts' = reconnectAttempts]_vars

C19_Witness ==
    /\ lastEvent.op = "close"
    /\ lastEvent.reason = "connectionLost"
    /\ stopping
    /\ reconnectAttempts = 2
    /\ timers = <<>>

\* the part of C20 about processedMessages alone: never more than 1000 ids,
\* and the id that overflows the set evicts exactly the oldest 500
ProcessedBounded ==
    /\ Len(processedMessages') <= 1000
    /\ (Len(processedMessages) = 1000 /\ processedMessages' # processedMessages) =>
           \E id \in 1..MaxInbound :
               /\ ~Has(processedMessages, id)
               /\ processedMessages' =
                      SubSeq(Append(processedMessages, id), 501, 1001)

ProcessedAlwaysBounded == [][ProcessedBounded]_vars

\* C20: both dedup sets stay bounded: processedMessages never holds more than
\* 1000 ids after a message was handled, the overflow evicts exactly the
\* oldest 500, and botSentMessages never holds more than 1000 ids either,
\* also when no echo ever arrives.
C20_DedupSetsBounded ==
    [][/\ ProcessedBounded
       /\ Len(botSentMessages') <= 1000]_vars

\* the text is empty or made of whitespace only
Blank(text) == \A i \in 1..Len(text) : text[i] \in Whitespace

\* the message lacks key, content or address, fails the direct-message-only
\* filter, comes from a sender outside a non-empty allow-list, or has no
\* text
Defective(m) ==
    \/ ~m.complete
    \/ /\ config.replyOnlyToDirectMessages
       /\ m.jid.server \notin {"s.whatsapp.net", "lid"}
    \/ /\ config.allowedSenders # {}
       /\ SenderNumber(m.jid) \notin config.allowedSenders
    \/ Blank(m.text)

\* C25: an inbound message that lacks essential addressing fields, fails
\* the direct-message-only filter, comes from a sender outside a non-empty
\* allow-list or has blank text is never taken in hand; and for a message
\* that is not taken in hand the handler is not invoked, no call of the
\* socket (presence or reply) is made and no reply is sent.
C25_FilteredNeverHandled ==
    [][\A h \in Handlers :
           (lastEvent'.op = "deliver" /\ lastEvent'.h = h) =>
               /\ InHand(h)' => ~Defective(batch'[h][1])
               /\ ~InHand(h)' =>
                      /\ signals'[h] = <<>>
                      /\ invoked' = invoked
                      /\ replies' = replies]_vars

C25_Witness ==
    /\ lastEvent.op = "deliver"
    /\ handler
    /\ socket = "open"
    /\ config.allowedSenders # {}
    /\ Has(processedMessages, lastEvent.id)
    /\ ~InHand(FirstHandler)
    /\ signals[FirstHandler] = <<>>
    /\ invoked = <<>>

\* the address that can receive messages for a sender address: a LID
\* address 100 + n belongs to the user with the number n
Counterpart(jid) ==
    IF jid.server = "lid" THEN Jid(jid.user - 100, "s.whatsapp.net") ELSE jid

\* the replies handed to sendMessage for the message in hand
Sent(h) == {i \in 1..Len(signals[h]) : signals[h][i].kind = "message"}

\* C26: for an inbound message that invoked the handler and got a non-empty
\* reply while the socket is present, exactly one outbound message is sent,
\* to the sender's address or, for a LID sender, to the address that
\* belongs to it; and no reply is sent when the handler fails.
C26_ReplySentOnceToSender ==
    \A h \in Handlers :
        /\ Cardinality(Sent(h)) <= 1
        /\ InHand(h) =>
               \A i \in Sent(h) :
                   signals[h][i].to = Counterpart(batch[h][1].jid)
        /\ ( /\ lastEvent.op = "paused"
             /\ lastEvent.h = h
             /\ reply[h]
             /\ socket # "null"
             /\ hpc[h] # "caught" ) =>
               hpc[h] = "send" /\ Cardinality(Sent(h)) = 1
        /\ ( /\ lastEvent.op = "handled"
             /\ lastEvent.h = h
             /\ lastEvent.reason = "throw" ) => Sent(h) = {}

\* C27: when the handling of a message has ended, every "composing" signal
\* that went out for it was followed by a "paused" signal to the same
\* address, whether the handler and the send succeeded or failed.
C27_ComposingAlwaysCleared ==
    \A h \in Handlers :
        ~InHand(h) =>
            \A i \in 1..Len(signals[h]) :
                (signals[h][i].kind = "composing" /\ signals[h][i].ok) =>
                    \E j \in (i + 1)..Len(signals[h]) :
                        /\ signals[h][j].kind = "paused"
                        /\ signals[h][j].to = signals[h][i].to

(***************************************************************************)
(* Properties of the tools.                                                *)
(***************************************************************************)
\* a text holds the literal s
Carries(text, s) ==
    \E i \in 1..Len(text) : text[i].k = "lit" /\ text[i].s = s

\* the side effects of the kinds given
EffectsOf(kinds) == {e \in effects : e.kind \in kinds}

\* C21: executeTool returns a result text and never raises, whatever the
\* tool name (a known one or not) and whatever the argument map (a required
\* field may be absent or hold something that is no string).
C21_ExecuteToolNeverRaises ==
    (tcall # NoCall /\ tcall.args.t = "object") => tresult.kind # "raised"

\* the switch turned to the tool, which its configuration disables
DisabledCall ==
    /\ tcall.args.t = "object"
    /\ \/ tcall.name = "bash" /\ ~toolsConfig.bash.enabled
       \/ /\ tcall.name \in {"read_file", "write_file", "list_directory"}
          /\ ~toolsConfig.file
       \/ tcall.name = "browse" /\ ~toolsConfig.browser
       \/ tcall.name = "claude_code" /\ toolsConfig.claudeCode # "enabled"

DisabledMessage ==
    CASE tcall.name = "bash" -> "Bash tool is disabled"
      [] tcall.name = "browse" -> ": Browser tool is disabled"
      [] tcall.name = "claude_code" -> "Claude Code tool is not enabled"
      [] OTHER -> "File tool is disabled"

\* C29: a call of a disabled tool (shell, file, browse, remote coding) with
\* an argument map has none of the tool's side effects and returns a text
\* that carries the tool's disabled message.
C29_DisabledToolDoesNothing ==
    DisabledCall =>
        /\ effects = {}
        /\ tpc \in {"done", "recorded"}
        /\ tresult.kind = "returned"
        /\ Carries(tresult.text, DisabledMessage)

\* the file tool, disabled, has been called to write with a path and a
\* content
C29_Witness ==
    /\ DisabledCall
    /\ tcall.name = "write_file"
    /\ Get(tcall.args, "path").t = "string"
    /\ Get(tcall.args, "content").t = "string"
    /\ tpc = "done"

\* the shell tool is enabled and is called with a command that is a string
ShellCall ==
    /\ tcall.name = "bash"
    /\ toolsConfig.bash.enabled
    /\ tcall.args.t = "object"
    /\ Get(tcall.args, "command").t = "string"

\* the first whitespace-separated word of the command called with
Base ==
    LET c == Get(tcall.args, "command").v
        Word(i) == /\ i \in 1..Len(c)
                   /\ c[i] \notin Whitespace
                   /\ \A j \in 1..(i - 1) : c[j] \in Whitespace
        first == IF \E i \in 1..Len(c) : Word(i)
                 THEN CHOOSE i \in 1..Len(c) : Word(i) ELSE 0
    IN IF first = 0 THEN <<>> ELSE <<c[first]>>

OnDenyList == Base \in toolsConfig.bash.deniedCommands
OnAllowList == Base \in toolsConfig.bash.allowedCommands
Permitted ==
    ~OnDenyList /\ (toolsConfig.bash.allowedCommands # {} => OnAllowList)

\* C30: a shell command is run only if its base command is not on the
\* deny-list and, when the allow-list is not empty, is on the allow-list; a
\* base command on both lists is rejected; a rejected command is never run
\* and its result says that the command is not allowed.
C30_OnlyPermittedCommandsRun ==
    ShellCall =>
        /\ EffectsOf({"exec"}) # {} => Permitted
        /\ (OnDenyList /\ OnAllowList) => ~Permitted
        /\ ~Permitted =>
              /\ effects = {}
              /\ tpc \in {"done", "recorded"}
              /\ tresult.kind = "returned"
              /\ Carries(tresult.text, "Command not allowed: ")
        /\ Permitted => EffectsOf({"exec"}) # {}

\* a command whose base command is on both lists has been rejected
C30_Witness ==
    /\ ShellCall
    /\ OnDenyList
    /\ OnAllowList
    /\ Len(Get(tcall.args, "command").v) > 1
    /\ tpc = "done"

\* the arguments text of the call the loop made is no encoding of a map
NotAMap ==
    /\ tcall # NoCall
    /\ ~tcall.direct
    /\ tcall.args.t # "object"

\* C24: a tool call whose arguments text is not a valid encoding of a
\* key-value map is executed with a map that holds the whole text under one
\* field; a tool message for its id is recorded and the invocation goes on.
C24_RawArgumentsFallback ==
    (~tcall.direct /\ tcall # NoCall) =>
        /\ tcall.args.t = "object"
        /\ tpc = "recorded" => toolMessage.tool_call_id = tcall.id

(***************************************************************************)
(* Properties of a tool round in which a tool throws.                      *)
(***************************************************************************)
\* C23: when the execution of a tool call throws, a tool message with an
\* error text is recorded for that call's id, the rest of the calls of the
\* response are still executed in their order, and after the last of them
\* the loop goes on to its next LLM request: the invocation is not aborted.
C23_ToolFailureIsRecorded ==
    [][\A p \in Procs :
          (/\ pc[p] = "tool"
           /\ lastOp'.op = "ToolDone"
           /\ lastOp'.proc = p
           /\ lastOp'.arg.threw) =>
             LET calls == response[p].tool_calls
                 h == heap'[messages[p]]
                 m == h[Len(h)]
             IN /\ Len(h) = Len(heap[messages[p]]) + 1
                /\ m.role = "tool"
                /\ m.tool_call_id = calls[callIdx[p]].id
                /\ Carries(m.content, "Tool error: ")
                /\ ret'[p].kind # "raised"
                /\ IF callIdx[p] < Len(calls)
                   THEN /\ pc'[p] = "tool"
                        /\ callIdx'[p] = callIdx[p] + 1
                        /\ toolRuns'[p] = toolRuns[p] + 1
                   ELSE IF maxIterations[p] > 0
                   THEN /\ pc'[p] = "llm"
                        /\ requests'[p] = requests[p] + 1
                   ELSE /\ pc'[p] = "idle"
                        /\ ret'[p] = Returned(MaxIterationsText)
    ]_vars

\* the first of two calls has thrown and the second is being executed
C23_Witness ==
    /\ pc[Caller] = "tool"
    /\ lastOp.op = "ToolDone"
    /\ lastOp.arg.threw
    /\ Len(response[Caller].tool_calls) = 2
    /\ callIdx[Caller] = 2

(***************************************************************************)
(* Properties of the ChannelManager.                                       *)
(***************************************************************************)
\* the session has been started (start has made its socket) and not
\* stopped since
Started(s) == s.handler /\ s.socket /\ ~s.stopping

\* this step begins the call op(name)
Calls(op, name) ==
    /\ mcalls' = mcalls + 1
    /\ mpc'.op = op
    /\ mpc'.name = name

\* C22: startChannel(name) fails and opens no connection when the name is
\* not registered or the session has been started and not stopped;
\* stopChannel(name) fails when the name is not registered or the session
\* is not running; the failed call leaves the state of every session as it
\* was.
C22_StartStopChannelGuards ==
    [][\A name \in Names \cup {UnknownName} :
          /\ (/\ Calls("startChannel", name)
              /\ (name \notin Names \/ Started(sessions[name]))) =>
                 /\ mret'.kind = "raised"
                 /\ sessions' = sessions
          /\ (/\ Calls("stopChannel", name)
              /\ (name \notin Names \/ ~Started(sessions[name]))) =>
                 /\ mret'.kind = "raised"
                 /\ sessions' = sessions
    ]_vars

\* this step ends a call of op
Ends(op) ==
    /\ mpc'.op = op
    /\ mpc'.at = "idle"
    /\ mpc' # mpc \/ mcalls' # mcalls

\* the log of the call holds the entry
Logged(what, name) ==
    \E i \in 1..Len(mlog') : mlog'[i] = Log(what, name)

\* C28: startAll, called with the handler set, calls start of every
\* registered session whose autoStart is not false, and stopAll calls stop
\* of every registered session; a session whose start or stop fails is
\* logged as failed and the others are attempted all the same; neither
\* operation raises.
C28_StartAllStopAllAttemptAll ==
    [][/\ (Ends("startAll") /\ mgrHandler) =>
             /\ mret'.kind = "returned"
             /\ \A n \in Names :
                   autoStart[n] # "false" =>
                      /\ n \in attempted'
                      /\ sessions'[n].handler
                      /\ Logged("started", n) \/ Logged("failed", n)
       /\ Ends("stopAll") =>
             /\ mret'.kind = "returned"
             /\ attempted' = Names
             /\ \A n \in Names :
                   /\ sessions'[n].stopping
                   /\ Logged("stopped", n) \/ Logged("failed", n)
    ]_vars

\* startAll has ended: the start of the first session failed, the second
\* session was started
C28_Witness ==
    /\ mpc = Call("startAll", "", 0, "idle")
    /\ mlog = <<Log("failed", Registered[1]), Log("started", Registered[2])>>
    /\ sessions[Registered[2]].socket
    /\ ~sessions[Registered[1]].socket

(***************************************************************************)
(* Properties of the stored history when chat ends and after a clear.      *)
(***************************************************************************)
\* this step ends an invocation of chat by caller p
ChatEnds(p) == pc[p] # "idle" /\ pc'[p] = "idle"

\* C39: when an invocation of chat has ended, the last message of the
\* stored history of its id is an assistant message without tool calls
\* whose content is the text chat returned.
C39_LastMessageIsTheReply ==
    [][\A p \in Procs :
          ChatEnds(p) =>
             LET h == Stored(convId[p])'
             IN /\ ret'[p].kind = "returned"
                /\ h # <<>>
                /\ h[Len(h)].role = "assistant"
                /\ h[Len(h)].tool_calls = NoCalls
                /\ h[Len(h)].content = ret'[p].text
    ]_vars

\* C34: the id had a stored history when the invocation began and has none
\* when it ends, so the id was cleared in between: the messages from before
\* the clear are not stored again.
C34_ClearedHistoryStaysGone ==
    [][\A p \in Procs :
          (/\ ChatEnds(p)
           /\ before[p] # <<>>
           /\ conversations[convId[p]] = NoRef) =>
             \A i \in 1..Len(Stored(convId[p])') :
                 \A j \in 1..Len(before[p]) :
                     Stored(convId[p])'[i] # before[p][j]
    ]_vars

(***************************************************************************)
(* Properties of the session's connections and of the echoes of replies.   *)
(***************************************************************************)
\* this step is connect() making a socket
Connects == connects' = connects - 1 /\ lastEvent'.op = "connect"

\* C35: between stop() and the next start() the session makes no new
\* connection and does not become connected, whatever was pending at the
\* time of the stop.
C35_StoppedStaysDisconnected ==
    [][(stopping /\ stopping') => (~Connects /\ ~connected')]_vars

\* the sockets made for the session that have not been ended and have not
\* closed: the one this.socket refers to and those it no longer refers to
LiveSockets ==
    (IF Live(socket) THEN 1 ELSE 0) + detached.connecting + detached.open

\* C36: the session has at most one live connection with handlers
\* registered at any time.
C36_OneLiveConnection == LiveSockets <= 1

\* a connection attempt is under way: connect() is at an await, or a socket
\* made has not yet reported open or close
Attempting ==
    connects > 0 \/ socket = "connecting" \/ detached.connecting > 0

\* C38: a session that is started, not stopped, not connected and below the
\* maximum of reconnect attempts, and none of whose sockets has closed, has
\* a connection attempt under way or a reconnect timer pending.
C38_NeverSilentlyDisconnected ==
    (/\ handler
     /\ ~stopping
     /\ ~connected
     /\ socket # "closed"
     /\ starts = 1
     /\ failures = 0
     /\ CanRetry(reconnectAttempts)) => (Attempting \/ timers # <<>>)

\* C37: the handler is never invoked for a message that carries the id of
\* a reply of this session (these ids are the negative ones).
C37_NoInvocationOnOwnEcho ==
    \A i \in 1..Len(invoked) : invoked[i] > NoId

(***************************************************************************)
(* BrowserTool: browse, cut at its awaits, and close.  BrowseCalls are the *)
(* calls of browse that can be in flight at one time.                      *)
(***************************************************************************)
MaxBrowses == 3     \* calls of browse and of close in one run

\* browse is called: it returns at once when the tool is disabled, and
\* otherwise awaits the import of playwright
BrowseBegin(c) ==
    /\ bpc[c] = "idle"
    /\ browses < MaxBrowses
    /\ browses' = browses + 1
    /\ cleaned' = FALSE
    /\ bpc' = IF toolsConfig.browser THEN [bpc EXCEPT ![c] = "import"]
              ELSE bpc
    /\ UNCHANGED <<browser, launched, closed, closing>>

\* the import settles: `if (!this.browser)` is tested and launch is called,
\* or newContext is called on the instance held; a rejection is caught
ImportDone(c, ok) ==
    /\ bpc[c] = "import"
    /\ bpc' = [bpc EXCEPT ![c] = IF ~ok THEN "idle"
                                 ELSE IF browser = NoBrowser THEN "launch"
                                 ELSE "page"]
    /\ UNCHANGED <<browser, launched, closed, closing, browses, cleaned>>

\* launch settles: the new instance is assigned to this.browser and
\* newContext is called on it; a rejection is caught
LaunchDone(c, ok) ==
    /\ bpc[c] = "launch"
    /\ IF ok
       THEN /\ launched' = launched + 1
            /\ browser' = launched + 1
            /\ bpc' = [bpc EXCEPT ![c] = "page"]
       ELSE /\ bpc' = [bpc EXCEPT ![c] = "idle"]
            /\ UNCHANGED <<browser, launched>>
    /\ UNCHANGED <<closed, closing, browses, cleaned>>

\* the rest of browse, from newContext to context.close(): it returns the
\* page, or the error caught
PageDone(c) ==
    /\ bpc[c] = "page"
    /\ bpc' = [bpc EXCEPT ![c] = "idle"]
    /\ UNCHANGED <<browser, launched, closed, closing, browses, cleaned>>

\* close is called (ToolManager.cleanup): it returns at once when no
\* instance is held, and otherwise awaits the close of the instance held
CloseBegin ==
    /\ closing = NoBrowser
    /\ browses < MaxBrowses
    /\ browses' = browses + 1
    /\ closing' = browser
    /\ cleaned' = (browser = NoBrowser)
    /\ UNCHANGED <<browser, launched, closed, bpc>>

\* the close of the instance settles: this.browser = null, close returns
CloseDone ==
    /\ closing # NoBrowser
    /\ closed' = closed \cup {closing}
    /\ browser' = NoBrowser
    /\ closing' = NoBrowser
    /\ cleaned' = TRUE
    /\ UNCHANGED <<launched, bpc, browses>>

BrowserFrame ==
    UNCHANGED <<agentVars, histVars, chanVars, toolVars, mgrVars, memVars>>

BrowserInit ==
    /\ AgentInit
    /\ ChannelInit
    /\ config = DefaultConfig
    /\ ToolsIdle
    /\ toolsConfig \in
           {DefaultTools,
            ToolsConfig(BashConfig(TRUE, {}, {}), TRUE, FALSE, "absent", FALSE)}
    /\ MgrIdle
    /\ autoStart = [n \in Names |-> "absent"]
    /\ MemoryEmpty
    /\ BrowserIdle

BrowserNext ==
    \/ \E c \in BrowseCalls : BrowseBegin(c) /\ BrowserFrame
    \/ \E c \in BrowseCalls, ok \in BOOLEAN : ImportDone(c, ok) /\ BrowserFrame
    \/ \E c \in BrowseCalls, ok \in BOOLEAN : LaunchDone(c, ok) /\ BrowserFrame
    \/ \E c \in BrowseCalls : PageDone(c) /\ BrowserFrame
    \/ CloseBegin /\ BrowserFrame
    \/ CloseDone /\ BrowserFrame

BrowserSpec == BrowserInit /\ [][BrowserNext]_vars

(***************************************************************************)
(* MemSpec: one caller whose conversations begin with a store loaded from  *)
(* disk; entries are set and deleted, and conversations cleared, at any    *)
(* time.  The LLM gives its default answers.                               *)
(***************************************************************************)
MaxEntries == 21    \* entries loaded from disk
MaxMemOps == 2      \* calls of set and delete in one run
MaxTicks == 1       \* milliseconds that pass in one run
MaxMemChats == 3    \* operations (chat, clearConversation) in one run
MaxMemRequests == 2 \* LLM requests in one run

Orders == {"falling", "ties", "mixed"}

\* the timestamp of the i-th of n entries on disk
Stamp(order, i, n) ==
    CASE order = "falling" -> n + 1 - i
      [] order = "ties" -> i % 3
      [] order = "mixed" -> (i * 7) % 11

\* the numbers of entries on disk: few, and about ContextEntries
StoreSizes == {n \in 0..MaxEntries : n <= 2 \/ n >= MaxEntries - 2}

LoadedStores ==
    {[i \in 1..n |-> Entry(i, 2 * i, Stamp(order, i, n))] :
        n \in StoreSizes, order \in Orders}

\* a key on disk, and one that is not
MemKeys == {1, 0}
MemValues == {7}

MemInit ==
    /\ AgentInit
    /\ ChannelInit
    /\ config = DefaultConfig
    /\ ToolsIdle
    /\ toolsConfig = DefaultTools
    /\ MgrIdle
    /\ autoStart = [n \in Names |-> "absent"]
    /\ BrowserIdle
    /\ memEnabled \in BOOLEAN
    /\ store \in IF memEnabled THEN LoadedStores ELSE {<<>>}
    /\ now = StartOfTime
    /\ memOps = 0

MemFrame ==
    UNCHANGED <<agentVars, histVars, chanVars, toolVars, mgrVars, browserVars>>

MemClearStep ==
    \E id \in CallerIds :
        /\ ops < MaxMemChats
        /\ ClearConversation(id)
        /\ ops' = ops + 1
        /\ UNCHANGED <<variants, sent, peers, chanVars, toolVars, mgrVars,
                       auxVars>>

MemNext ==
    \/ BoundedStartStep(Caller, CallerIds, MaxMemChats, MaxMemRequests)
    \/ FinalStep(Caller, {DefaultFinalResponse})
    \/ MemClearStep
    \/ \E key \in MemKeys, value \in MemValues :
          memOps < MaxMemOps /\ MemSet(key, value) /\ MemFrame
    \/ \E key \in MemKeys :
          memOps < MaxMemOps /\ MemDelete(key) /\ MemFrame
    \/ now < StartOfTime + MaxTicks /\ Tick /\ MemFrame

MemSpec == MemInit /\ [][MemNext]_vars

(***************************************************************************)
(* Properties of a remote coding run.                                      *)
(***************************************************************************)
\* a remote coding run has ended with the close of its process
RunClosed ==
    /\ tcall.name = "claude_code"
    /\ tevent.kind = "close"
    /\ tpc \in {"done", "recorded"}

TimeoutFlavoured == Carries(tresult.text, "Timed out")
ConnectionError ==
    /\ Carries(tresult.text, "SSH connection to ")
    /\ \E i \in 1..Len(tresult.text) : tresult.text[i].s = "instructions"
GenericFailure ==
    \E i \in 1..(Len(tresult.text) - 1) :
        /\ tresult.text[i].k = "lit" /\ tresult.text[i].s = "Exit code: "
        /\ tresult.text[i + 1].k = "num"
        /\ tresult.text[i + 1].v = tevent.code
Failure == Carries(tresult.text, "Claude Code error: ")

\* C31: a remote coding run ends in one outcome, by the precedence timeout,
\* exit code 255, other non-zero exit code, success: a timed-out run gives
\* a timeout result whatever code the process reports; code 255 gives the
\* connection error with the setup instructions and not `Exit code: N`;
\* another non-zero code gives `Exit code: N`; otherwise the output alone.
C31_RemoteRunOutcome ==
    RunClosed =>
        /\ tresult.kind = "returned"
        /\ IF tevent.timedOut
           THEN TimeoutFlavoured /\ ~ConnectionError /\ ~GenericFailure
           ELSE IF tevent.code = 255
           THEN ConnectionError /\ ~GenericFailure /\ ~TimeoutFlavoured
           ELSE IF tevent.code \notin {0, NoCode}
           THEN GenericFailure /\ ~ConnectionError /\ ~TimeoutFlavoured
           ELSE ~Failure /\ ~TimeoutFlavoured

\* a run that timed out and whose killed process reported the code 255
C31_Witness ==
    /\ RunClosed
    /\ tevent.timedOut
    /\ tevent.code = 255

(***************************************************************************)
(* Properties of the browser instance.                                     *)
(***************************************************************************)
\* the instances launched and not closed
Unclosed == (1..launched) \ closed

\* C33: at most one browser instance is launched and not closed at any
\* time, also when calls of browse overlap while none exists; and once
\* cleanup has returned, with no browse begun since, every instance ever
\* launched is closed and none is held.
C33_SingleBrowserInstance ==
    /\ Cardinality(Unclosed) <= 1
    /\ cleaned => (Unclosed = {} /\ browser = NoBrowser)

(***************************************************************************)
(* Properties of the memory context.                                       *)
(***************************************************************************)
\* caller p begins a new conversation: chat is called with an id that has
\* no history
BeginsConversation(p) ==
    /\ pc[p] = "idle"
    /\ pc'[p] # "idle"
    /\ Stored(convId'[p]) = <<>>

\* the text in front of the first entry
ContextHead == SystemPrompt \o Str("\n\n") \o Str("Remembered context:\n")

\* the entries stored
Entries == {store[i] : i \in 1..Len(store)}

\* the store's entry of a key
EntryOf(key) == CHOOSE e \in Entries : e.key = key

\* `content` is the head followed by the min(20, n) stored entries of the
\* largest timestamps, newest first, one `[key]: value` each
ListsNewest(content) ==
    LET n == Len(store)
        m == IF n < ContextEntries THEN n ELSE ContextEntries
        at(i) == Len(ContextHead) + 5 * (i - 1)
        key(i) == content[at(i) + 2].v
        listed == {key(i) : i \in 1..m}
    IN  /\ Len(content) = Len(ContextHead) + 5 * m - 1
        /\ SubSeq(content, 1, Len(ContextHead)) = ContextHead
        /\ \A i \in 1..m :
              /\ <<content[at(i) + 1]>> = Str("[")
              /\ content[at(i) + 2].k = "num"
              /\ <<content[at(i) + 3]>> = Str("]: ")
              /\ content[at(i) + 4].k = "num"
              /\ i < m => <<content[at(i) + 5]>> = Str("\n")
              /\ \E e \in Entries :
                    e.key = key(i) /\ e.value = content[at(i) + 4].v
        /\ Cardinality(listed) = m
        /\ \A i, j \in 1..m :
              i < j => EntryOf(key(i)).timestamp >= EntryOf(key(j)).timestamp
        /\ \A e \in Entries : \A i \in 1..m :
              e.key \notin listed => e.timestamp <= EntryOf(key(i)).timestamp

\* the first message of the history an invocation of p works on
Working(p) == heap[messages[p]][1]

\* C32: the system message of a new conversation carries the min(20, n)
\* stored entries of the largest timestamps, newest first, each as
\* `[key]: value`, and nothing but the prompt when memory is disabled or
\* empty; and no step, whatever is set or deleted, changes the system
\* message of a conversation that has a history or of one in progress.
C32_MemoryContext ==
    [][/\ \A p \in Procs :
             BeginsConversation(p) =>
                 /\ Working(p)'.role = "system"
                 /\ IF ~memEnabled \/ store = <<>>
                    THEN Working(p)'.content = SystemPrompt
                    ELSE ListsNewest(Working(p)'.content)
       /\ \A id \in ConvIds :
             (Stored(id) # <<>> /\ Stored(id)' # <<>>)
                 => Stored(id)'[1] = Stored(id)[1]
       /\ \A p \in Procs :
             (pc[p] # "idle" /\ pc'[p] # "idle")
                 => Working(p)' = Working(p)]_vars

\* a conversation has a history whose system message lists 20 entries of a
\* larger store, and an entry set since would be listed in a new one
C32_Witness ==
    /\ Len(store) > ContextEntries
    /\ memOps > 0
    /\ Stored("A") # <<>>
    /\ Len(Stored("A")[1].content) = Len(ContextHead) + 5 * ContextEntries - 1
    /\ Stored("A")[1] # SeedMessage


=============================================================================
